---- MODULE Spec2Model ----
(***************************************************************************)
(* Run-history store of the cover localizer (src/src/lib/db.ts): a sql.js  *)
(* table `runs` held in memory, its snapshot in the IndexedDB object store *)
(* "sqlite", and the image blobs in the IndexedDB object store "images".   *)
(*                                                                         *)
(* Every async function is cut at its awaits.  An IndexedDB request is an  *)
(* entry of a per-object-store queue: openIDB() calls resolve in the order *)
(* they were made and transactions on one object store run in the order    *)
(* they were created, so each store serves its requests first-in first-out *)
(* and each request is one atomic step.  The code between two awaits runs  *)
(* to completion inside the step that resumes it.                          *)
(***************************************************************************)
EXTENDS Integers, Sequences, FiniteSets, TLC

VARIABLES db, dbInitPromise, initPc, sqliteStore, imagesStore,
          sqliteQueue, imagesQueue, calls, stamps, getRunsResult,
          lastReturnedId, ui, debugLog, fetchCall

vars == <<db, dbInitPromise, initPc, sqliteStore, imagesStore,
          sqliteQueue, imagesQueue, calls, stamps, getRunsResult,
          lastReturnedId, ui, debugLog, fetchCall>>

\* lastReturnedId is a history variable: the id returned by the saveRun that
\* was fulfilled last (0 before the first); it outlives a reload of the page
\*
\* ui is the state of the BookCoverLocalizer component: its useState values
\* dbReady, isGenerating, lastRun, lastRunId and lastRunComment, the position
\* of its init effect (startup) and of generate(), and what they observed
\*
\* debugLog is the debug log: the entries of useDebugLog (loaded: its load
\* effect has run), the item of localStorage under DEBUG_LOG_STORAGE_KEY,
\* the text on the clipboard, and as a history variable the entries
\* appended so far
\*
\* fetchCall is a call of fetchJsonWithRetry: its position, its arguments
\* retries and delayMs, and as history variables the arguments of the
\* outermost call, the outcomes of its attempts and its waits

(* ------------------------------ bounds -------------------------------- *)

\* INSERTs over the lifetime of the store (ids 1..MaxRuns)
MaxRuns == 2

\* concurrent callers of the store (event handlers, effects); a new call
\* takes the first free one
Callers == {1, 2}

(* ------------------------------ values -------------------------------- *)

Null == "null"

\* created_at: ISO-8601 text, here fixed-width digit strings
CreatedAts == {<<1, 9>>, <<2, 0>>, <<2, 1>>}

\* the SHA-256 digest in hex (abstract: two digits, injective on the
\* payloads of the model); "AAA" and "AAB" agree on the first digit
Sha256Hex(data) ==
    CASE data = "AAA" -> <<"a", "1">>
      [] data = "AAB" -> <<"a", "2">>
      [] data = "BBB" -> <<"b", "3">>
      [] OTHER        -> <<"c", "4">>

\* hashHex.slice(0, 16): the length of the prefix kept (16 of 64 hex digits
\* in the program, 1 of 2 here)
HashPrefixLen == 1

NoKey == <<>>

\* getRunsResult is what a getRuns() promise delivers to its caller in the
\* step that settles it; NoResult in every other step
NoResult == [returned |-> FALSE, records |-> <<>>]

\* `img_${hashHex.slice(0, 16)}`
hashImage(data) == <<"img_", SubSeq(Sha256Hex(data), 1, HashPrefixLen)>>

\* `img_${Date.now()}_${Math.random().toString(36).slice(2, 9)}`: stamp
\* numbers the pair of millisecond and random suffix
UniqueImageId(stamp) == <<"img_", stamp, "_">>

\* saveImageDeduped that never hashes
ImageIdFor_AlwaysNew(forceNew, data, newId) == newId

\* saveImageDeduped that keeps every deduplicated payload under one key
ImageIdFor_OneKey(forceNew, data, newId) ==
    IF forceNew THEN newId ELSE <<"img_", <<"a">>>>

\* the first statement of saveImageDeduped: forceNew ? <a new id> : hashImage(data)
ImageIdFor(forceNew, data, newId) ==
    IF forceNew THEN newId ELSE hashImage(data)

IsHashKey(k) == Len(k) = 2

\* Date.now() and Math.random(): neither the wall time nor the generator
\* excludes a pair that was drawn before, so a call draws one of the pairs
\* drawn so far or a new one; the distinct pairs are numbered as they
\* appear.  draws = "new" is the environment in which no pair repeats.
DateNowAndRandom(draws) ==
    IF draws = "new" THEN {stamps + 1} ELSE 1..(stamps + 1)

(* ------------------------- the runs table ----------------------------- *)

EmptyRows == [i \in {} |-> Null]

\* new SQL.Database() followed by CREATE TABLE IF NOT EXISTS runs
EmptyDatabase == [open |-> TRUE, rows |-> EmptyRows, seq |-> 0, lastInsertRowid |-> 0]

ClosedDatabase == [open |-> FALSE, rows |-> EmptyRows, seq |-> 0, lastInsertRowid |-> 0]

NoSnapshot == [present |-> FALSE, rows |-> EmptyRows, seq |-> 0]

\* db.export(): the table and sqlite_sequence
Export(d) == [present |-> TRUE, rows |-> d.rows, seq |-> d.seq]

\* new SQL.Database(existingData): last_insert_rowid() is per connection
Restore(s) == [open |-> TRUE, rows |-> s.rows, seq |-> s.seq, lastInsertRowid |-> 0]

\* the INSERT into a table whose id is INTEGER PRIMARY KEY without
\* AUTOINCREMENT: the id after the largest one in the table
SqlInsert_MaxRowid(d, row) ==
    LET id == IF DOMAIN d.rows = {} THEN 1
              ELSE 1 + CHOOSE i \in DOMAIN d.rows : \A j \in DOMAIN d.rows : j <= i
    IN [d EXCEPT !.rows = [i \in DOMAIN d.rows \cup {id} |->
                             IF i = id THEN row ELSE d.rows[i]],
                 !.seq = IF id > d.seq THEN id ELSE d.seq,
                 !.lastInsertRowid = id]

\* INSERT INTO runs (...) VALUES (...): AUTOINCREMENT takes the id after
\* the largest one ever used
SqlInsert(d, row) ==
    LET id == d.seq + 1
    IN [d EXCEPT !.rows = [i \in DOMAIN d.rows \cup {id} |->
                             IF i = id THEN row ELSE d.rows[i]],
                 !.seq = id,
                 !.lastInsertRowid = id]

\* DELETE FROM runs WHERE id = ?
SqlDelete(d, id) ==
    [d EXCEPT !.rows = [i \in DOMAIN d.rows \ {id} |-> d.rows[i]]]

\* the count without its `AND id != ?`
SqlCountInput_CountingSelf(d, key, id) ==
    Cardinality({i \in DOMAIN d.rows : d.rows[i].input_image_id = key})

\* SELECT COUNT(*) FROM runs WHERE input_image_id = ? AND id != ?
SqlCountInput(d, key, id) ==
    Cardinality({i \in DOMAIN d.rows : d.rows[i].input_image_id = key /\ i # id})

\* the row -> RunRecord mapping of getRuns and getRunById
RowToRecord(id, row) ==
    [id |-> id, createdAt |-> row.created_at, meta |-> row.meta,
     inputImageId |-> row.input_image_id, outputImageId |-> row.output_image_id,
     humanComment |-> row.human_comment]

NoRecord == [id |-> 0, createdAt |-> <<>>, meta |-> Null, inputImageId |-> NoKey,
             outputImageId |-> NoKey, humanComment |-> Null]

\* SELECT ... FROM runs WHERE id = ?  (NoRecord stands for null)
SelectById(d, id) ==
    IF id \in DOMAIN d.rows THEN RowToRecord(id, d.rows[id]) ELSE NoRecord


(* ------------------------------ callers ------------------------------- *)

\* the argument of saveRun (RunInsert); meta stands for the columns that are
\* copied unchanged: model_id, model_label, prompt_template, compiled_prompt,
\* new_title, served_by, route, the token counts, cost and duration_ms
NoInsert == [createdAt |-> <<>>, meta |-> Null, inputImage |-> Null,
             outputImage |-> Null, humanComment |-> Null]

\* the result of loadImagesForRun before its loads have returned
NoImages == [inputImage |-> Null, outputImage |-> Null]

IdleCall == [op |-> "idle", pc |-> "idle", waitInit |-> FALSE, run |-> NoInsert,
             id |-> 0, inputImageId |-> NoKey, outputImageId |-> NoKey,
             pending |-> 0, row |-> NoRecord, inputUsageCount |-> 0,
             failed |-> FALSE, comment |-> Null, loaded |-> <<>>,
             images |-> NoImages]

\* setTimeout(() => setDeleteConfirm(null), 3000), in seconds
ConfirmSeconds == 3

\* viewingHistoryImages of the component (set FALSE stands for null)
NoViewing == [set |-> FALSE, input |-> "", output |-> ""]

\* what handleEditFromHistory loaded into the editor: the input image and,
\* standing for newTitle, promptTemplate and modelId, the meta of a run
NoEdit == [set |-> FALSE, inputImage |-> "", meta |-> Null]

\* lastRun, lastRunId and lastRunComment of the component (lastRun stands
\* for result.metrics, lastRunId 0 for null)
NoLastRun == [lastRun |-> Null, lastRunId |-> 0, lastRunComment |-> ""]

\* the component when it is mounted: the useState initial values; startup
\* is the position of the init effect, seeded what seedSampleDataIfEmpty
\* resolved to, seedFailure whether a fetch or the saveRun of the sample
\* failed, seedCall and genCall the saveRun calls the effect and generate()
\* await, closureDbReady the dbReady of the render generate() was created
\* in, generation and saveRunCalls what the last generate() did, saved how
\* its saveRun ended, before the last-run state when it was started,
\* hasOutput whether outputImage is set, selectedRun the history run that
\* is selected, loadCall the loadImagesForRun call of the load-images effect
\* that is not cancelled, edited what the last Edit of a history run loaded
\* into the editor, deleteConfirm (0 for null) the run whose delete button
\* is armed, timers the seconds left of the setTimeout calls of
\* handleDelete, deleteCalls the deleteRun calls it awaits, clicked the
\* parity of the number of clicks on delete buttons, sinceClick the
\* seconds since the last click on a run's delete button (more than
\* ConfirmSeconds: longer ago or never), deletionSince whether deleteRun has
\* been called since that click
UiInit ==
    [startup |-> "unmounted", seeded |-> "none", seedFailure |-> FALSE, seedCall |-> 0,
     dbReady |-> FALSE, isGenerating |-> FALSE, closureDbReady |-> FALSE, genCall |-> 0,
     generation |-> "none", saveRunCalls |-> 0, saved |-> "none", hasOutput |-> FALSE,
     lastRun |-> Null, lastRunId |-> 0, lastRunComment |-> "", before |-> NoLastRun,
     selectedRun |-> NoRecord, loadCall |-> 0, viewingHistoryImages |-> NoViewing,
     edited |-> NoEdit,
     deleteConfirm |-> 0, timers |-> {}, deleteCalls |-> {}, clicked |-> 0,
     sinceClick |-> [id \in 1..MaxRuns |-> ConfirmSeconds + 1],
     deletionSince |-> [id \in 1..MaxRuns |-> FALSE]]

\* the last-run state of the component
LastRunState(u) ==
    [lastRun |-> u.lastRun, lastRunId |-> u.lastRunId, lastRunComment |-> u.lastRunComment]

\* await initDatabase(): a caller that found db set resumes at once, one
\* that was handed dbInitPromise resumes when it is fulfilled
InitAwaited(c) == calls[c].waitInit => dbInitPromise = "fulfilled"

\* caller c is at its await initDatabase()
AwaitsInit(c) ==
    \/ calls[c].op \in {"saveRun", "updateRunComment", "getRuns"} /\ calls[c].pc = "awaitInit"
    \/ calls[c].op = "deleteRun" /\ calls[c].pc = "getRunById"

\* initDatabase() without `if (dbInitPromise) return dbInitPromise`
initDatabase_called_Unguarded ==
    IF ~db.open
    THEN dbInitPromise' = "pending" /\ initPc' = "initSqlJs"
    ELSE UNCHANGED <<dbInitPromise, initPc>>

\* initDatabase(): the first caller with neither db nor dbInitPromise set
\* starts the initialisation
initDatabase_called ==
    IF ~db.open /\ dbInitPromise = "null"
    THEN dbInitPromise' = "pending" /\ initPc' = "initSqlJs"
    ELSE UNCHANGED <<dbInitPromise, initPc>>

\* the ids handed out so far, by this database or by the snapshot it will
\* be restored from
SeqNow == IF db.open THEN db.seq ELSE sqliteStore.seq

SavesInFlight ==
    Cardinality({c \in Callers : calls[c].op = "saveRun"
                                 /\ calls[c].pc \in {"awaitInit", "hash", "exists", "put", "stored"}})

\* a call is made by the first free caller
FirstFree(c) == calls[c].op = "idle" /\ \A d \in Callers : d < c => calls[d].op # "idle"

\* which calls may overlap: "any" (every interleaving), "same" (only calls
\* of the same operation), "none" (each call awaited before the next)
MayCall(overlap, op) ==
    CASE overlap = "any"  -> TRUE
      [] overlap = "same" -> \A d \in Callers : calls[d].op \in {"idle", op}
      [] OTHER            -> \A d \in Callers : calls[d].op = "idle"

(* --------------------------- initDatabase ----------------------------- *)

\* await initSqlJs(...) returned; loadFromIndexedDB() is requested (caller 0
\* of a request is initDatabase itself)
initDatabase_sqlJsLoaded ==
    /\ initPc = "initSqlJs"
    /\ initPc' = "load"
    /\ sqliteQueue' = Append(sqliteQueue, [op |-> "get", caller |-> 0, data |-> NoSnapshot])
    /\ getRunsResult' = NoResult
    /\ UNCHANGED <<db, dbInitPromise, sqliteStore, imagesStore, imagesQueue, calls, stamps,
                   lastReturnedId, ui, debugLog, fetchCall>>

\* loadFromIndexedDB() returned: db is set, the table created, the export
\* handed to saveToIndexedDB
initDatabase_loaded ==
    /\ sqliteQueue # <<>>
    /\ Head(sqliteQueue).op = "get"
    /\ LET opened == IF sqliteStore.present THEN Restore(sqliteStore) ELSE EmptyDatabase
       IN /\ db' = opened
          /\ sqliteQueue' = Append(Tail(sqliteQueue),
                                   [op |-> "put", caller |-> 0, data |-> Export(opened)])
    /\ initPc' = "persist"
    /\ getRunsResult' = NoResult
    /\ UNCHANGED <<dbInitPromise, sqliteStore, imagesStore, imagesQueue, calls, stamps,
                   lastReturnedId, ui, debugLog, fetchCall>>

\* the first persistDatabase() returned: dbInitPromise is fulfilled
initDatabase_persisted ==
    /\ sqliteQueue # <<>>
    /\ Head(sqliteQueue).op = "put"
    /\ Head(sqliteQueue).caller = 0
    /\ sqliteStore' = Head(sqliteQueue).data
    /\ sqliteQueue' = Tail(sqliteQueue)
    /\ dbInitPromise' = "fulfilled"
    /\ initPc' = "done"
    /\ getRunsResult' = NoResult
    /\ UNCHANGED <<db, imagesStore, imagesQueue, calls, stamps,
                   lastReturnedId, ui, debugLog, fetchCall>>

(* ------------------------------ saveRun ------------------------------- *)

\* the row saveRun binds to its INSERT
InsertedRow(run, inputImageId, outputImageId) ==
    [created_at |-> run.createdAt, meta |-> run.meta,
     input_image_id |-> inputImageId, output_image_id |-> outputImageId,
     human_comment |-> run.humanComment]

\* saveRun(run) is called: await initDatabase()
saveRun_called(c, run, overlap) ==
    /\ FirstFree(c)
    /\ MayCall(overlap, "saveRun")
    /\ SeqNow + SavesInFlight < MaxRuns
    /\ calls' = [calls EXCEPT ![c] = [IdleCall EXCEPT !.op = "saveRun", !.pc = "awaitInit",
                                                      !.waitInit = ~db.open, !.run = run]]
    /\ initDatabase_called
    /\ getRunsResult' = NoResult
    /\ UNCHANGED <<db, sqliteStore, imagesStore, sqliteQueue, imagesQueue, stamps,
                   lastReturnedId, ui, debugLog, fetchCall>>

\* Promise.all([saveImageDeduped(input, false), saveImageDeduped(output, true)])
\* starts: the first call awaits hashImage, the second takes its new id and
\* requests its put
saveRun_imagesStarted(c, draws) ==
    /\ calls[c].op = "saveRun"
    /\ calls[c].pc = "awaitInit"
    /\ InitAwaited(c)
    /\ \E stamp \in DateNowAndRandom(draws) :
         LET outputImageId == ImageIdFor(TRUE, calls[c].run.outputImage,
                                          UniqueImageId(stamp))
         IN /\ stamps' = IF stamp > stamps THEN stamp ELSE stamps
            /\ calls' = [calls EXCEPT ![c].pc = "hash", ![c].pending = 2,
                                      ![c].outputImageId = outputImageId]
            /\ imagesQueue' = Append(imagesQueue,
                                     [op |-> "put", caller |-> c, key |-> outputImageId,
                                      data |-> calls[c].run.outputImage])
    /\ getRunsResult' = NoResult
    /\ UNCHANGED <<db, dbInitPromise, initPc, sqliteStore, imagesStore, sqliteQueue,
                   lastReturnedId, ui, debugLog, fetchCall>>

\* hashImage(data) returned: imageExists(imageId) is requested
saveRun_inputHashed(c) ==
    /\ calls[c].op = "saveRun"
    /\ calls[c].pc = "hash"
    /\ LET inputImageId == ImageIdFor(FALSE, calls[c].run.inputImage, NoKey)
       IN /\ calls' = [calls EXCEPT ![c].pc = "exists", ![c].inputImageId = inputImageId]
          /\ imagesQueue' = Append(imagesQueue,
                                   [op |-> "get", caller |-> c, key |-> inputImageId,
                                    data |-> Null])
    /\ getRunsResult' = NoResult
    /\ UNCHANGED <<db, dbInitPromise, initPc, sqliteStore, imagesStore, sqliteQueue, stamps,
                   lastReturnedId, ui, debugLog, fetchCall>>

\* saveRun with a Promise.all that waits for both writes and goes on to the
\* INSERT whatever their outcome
saveRun_imageSaved_IgnoringFailure(c, inputDone, ok) ==
    LET call == [calls[c] EXCEPT !.pending = @ - 1,
                                 !.pc = IF inputDone THEN "stored" ELSE @,
                                 !.failed = @ \/ ~ok]
    IN IF call.pending > 0
       THEN /\ calls' = [calls EXCEPT ![c] = call]
            /\ UNCHANGED <<db, sqliteQueue>>
       ELSE LET inserted == SqlInsert(db, InsertedRow(call.run, call.inputImageId,
                                                      call.outputImageId))
            IN /\ db' = inserted
               /\ calls' = [calls EXCEPT ![c] = [call EXCEPT !.pc = "persist",
                                                             !.id = inserted.lastInsertRowid]]
               /\ sqliteQueue' = Append(sqliteQueue,
                                        [op |-> "put", caller |-> c, data |-> Export(inserted)])

\* one promise of the Promise.all of caller c settled (ok: fulfilled); after
\* the last one saveRun runs on to its await persistDatabase(): INSERT,
\* SELECT last_insert_rowid(), db.export(), saveToIndexedDB(data).  With a
\* rejected promise the await throws and saveRun runs no further; the other
\* saveImageDeduped goes on by itself, and the call is kept until it ended
saveRun_imageSaved(c, inputDone, ok) ==
    LET call == [calls[c] EXCEPT !.pending = @ - 1,
                                 !.pc = IF inputDone THEN "stored" ELSE @,
                                 !.failed = @ \/ ~ok]
    IN IF call.pending > 0
       THEN /\ calls' = [calls EXCEPT ![c] = call]
            /\ UNCHANGED <<db, sqliteQueue>>
       ELSE IF call.failed
       THEN /\ calls' = [calls EXCEPT ![c] = [call EXCEPT !.pc = "rejected"]]
            /\ UNCHANGED <<db, sqliteQueue>>
       ELSE LET inserted == SqlInsert(db, InsertedRow(call.run, call.inputImageId,
                                                      call.outputImageId))
            IN /\ db' = inserted
               /\ calls' = [calls EXCEPT ![c] = [call EXCEPT !.pc = "persist",
                                                             !.id = inserted.lastInsertRowid]]
               /\ sqliteQueue' = Append(sqliteQueue,
                                        [op |-> "put", caller |-> c, data |-> Export(inserted)])


(* ----------------------------- deleteRun ------------------------------ *)

\* deleteRun(id) is called: getRunById(id) awaits initDatabase()
deleteRun_called(c, id, overlap) ==
    /\ FirstFree(c)
    /\ MayCall(overlap, "deleteRun")
    /\ id <= SeqNow
    /\ calls' = [calls EXCEPT ![c] = [IdleCall EXCEPT !.op = "deleteRun", !.pc = "getRunById",
                                                      !.waitInit = ~db.open, !.id = id]]
    /\ initDatabase_called
    /\ getRunsResult' = NoResult
    /\ UNCHANGED <<db, sqliteStore, imagesStore, sqliteQueue, imagesQueue, stamps,
                   lastReturnedId, ui, debugLog, fetchCall>>

\* getRunById(id) selects the row; without one deleteRun returns
deleteRun_rowRead(c) ==
    /\ calls[c].op = "deleteRun"
    /\ calls[c].pc = "getRunById"
    /\ InitAwaited(c)
    /\ LET run == SelectById(db, calls[c].id)
       IN calls' = [calls EXCEPT ![c].row = run,
                                 ![c].pc = IF run = NoRecord THEN "done" ELSE "awaitInit"]
    /\ getRunsResult' = NoResult
    /\ UNCHANGED <<db, dbInitPromise, initPc, sqliteStore, imagesStore, sqliteQueue,
                   imagesQueue, stamps,
                   lastReturnedId, ui, debugLog, fetchCall>>

\* deleteRun that exports the database before its DELETE
deleteRun_rowDeleted_StaleExport(c) ==
    /\ calls[c].op = "deleteRun"
    /\ calls[c].pc = "awaitInit"
    /\ calls' = [calls EXCEPT ![c].pc = "persist",
                              ![c].inputUsageCount =
                                  SqlCountInput(db, calls[c].row.inputImageId, calls[c].id)]
    /\ db' = SqlDelete(db, calls[c].id)
    /\ sqliteQueue' = Append(sqliteQueue,
                             [op |-> "put", caller |-> c, data |-> Export(db)])
    /\ getRunsResult' = NoResult
    /\ UNCHANGED <<dbInitPromise, initPc, sqliteStore, imagesStore, imagesQueue, stamps,
                   lastReturnedId, ui, debugLog, fetchCall>>

\* deleteRun that counts in the snapshot last flushed, not in the table
deleteRun_rowDeleted_CountingSnapshot(c) ==
    /\ calls[c].op = "deleteRun"
    /\ calls[c].pc = "awaitInit"
    /\ LET deleted == SqlDelete(db, calls[c].id)
       IN /\ calls' = [calls EXCEPT ![c].pc = "persist",
                                    ![c].inputUsageCount =
                                        SqlCountInput(sqliteStore, calls[c].row.inputImageId,
                                                      calls[c].id)]
          /\ db' = deleted
          /\ sqliteQueue' = Append(sqliteQueue,
                                   [op |-> "put", caller |-> c, data |-> Export(deleted)])
    /\ getRunsResult' = NoResult
    /\ UNCHANGED <<dbInitPromise, initPc, sqliteStore, imagesStore, imagesQueue, stamps,
                   lastReturnedId, ui, debugLog, fetchCall>>

\* after await initDatabase(): the count of the other rows with this input,
\* the DELETE, and persistDatabase() up to its await
deleteRun_rowDeleted(c) ==
    /\ calls[c].op = "deleteRun"
    /\ calls[c].pc = "awaitInit"
    /\ LET deleted == SqlDelete(db, calls[c].id)
       IN /\ calls' = [calls EXCEPT ![c].pc = "persist",
                                    ![c].inputUsageCount =
                                        SqlCountInput(db, calls[c].row.inputImageId, calls[c].id)]
          /\ db' = deleted
          /\ sqliteQueue' = Append(sqliteQueue,
                                   [op |-> "put", caller |-> c, data |-> Export(deleted)])
    /\ getRunsResult' = NoResult
    /\ UNCHANGED <<dbInitPromise, initPc, sqliteStore, imagesStore, imagesQueue, stamps,
                   lastReturnedId, ui, debugLog, fetchCall>>

\* deleteRun without the reference count: the input always
ImagesToDelete_Both(run, inputUsageCount) == <<run.outputImageId, run.inputImageId>>

\* deleteRun that never deletes an input
ImagesToDelete_OutputOnly(run, inputUsageCount) == <<run.outputImageId>>

\* the images deleteRun deletes once the row is gone: the output always,
\* the input when no other run used it
ImagesToDelete(run, inputUsageCount) ==
    IF inputUsageCount = 0 THEN <<run.outputImageId, run.inputImageId>>
    ELSE <<run.outputImageId>>

DeleteRequests(c, keys) ==
    [i \in 1..Len(keys) |-> [op |-> "delete", caller |-> c, key |-> keys[i], data |-> Null]]

(* -------------------------- updateRunComment -------------------------- *)

\* an UPDATE that sets created_at along with human_comment
SqlUpdateComment_Touching(d, id, comment) ==
    [d EXCEPT !.rows = [i \in DOMAIN d.rows |->
                          IF i = id THEN [d.rows[i] EXCEPT !.human_comment = comment,
                                                           !.created_at = <<>>]
                          ELSE d.rows[i]]]

\* UPDATE runs SET human_comment = ? WHERE id = ?
SqlUpdateComment(d, id, comment) ==
    [d EXCEPT !.rows = [i \in DOMAIN d.rows |->
                          IF i = id THEN [d.rows[i] EXCEPT !.human_comment = comment]
                          ELSE d.rows[i]]]

\* updateRunComment(id, comment) is called: await initDatabase()
updateRunComment_called(c, id, comment, overlap) ==
    /\ FirstFree(c)
    /\ MayCall(overlap, "updateRunComment")
    /\ id <= SeqNow
    /\ calls' = [calls EXCEPT ![c] = [IdleCall EXCEPT !.op = "updateRunComment",
                                                      !.pc = "awaitInit",
                                                      !.waitInit = ~db.open,
                                                      !.id = id, !.comment = comment]]
    /\ initDatabase_called
    /\ getRunsResult' = NoResult
    /\ UNCHANGED <<db, sqliteStore, imagesStore, sqliteQueue, imagesQueue, stamps,
                   lastReturnedId, ui, debugLog, fetchCall>>

\* updateRunComment that returns after its UPDATE, without persistDatabase()
updateRunComment_updated_NoFlush(c) ==
    /\ calls[c].op = "updateRunComment"
    /\ calls[c].pc = "awaitInit"
    /\ InitAwaited(c)
    /\ db' = SqlUpdateComment(db, calls[c].id, calls[c].comment)
    /\ calls' = [calls EXCEPT ![c].pc = "done"]
    /\ getRunsResult' = NoResult
    /\ UNCHANGED <<dbInitPromise, initPc, sqliteStore, imagesStore, sqliteQueue,
                   imagesQueue, stamps, lastReturnedId, ui, debugLog, fetchCall>>

\* after await initDatabase(): the UPDATE, and persistDatabase() up to its
\* await
updateRunComment_updated(c) ==
    /\ calls[c].op = "updateRunComment"
    /\ calls[c].pc = "awaitInit"
    /\ InitAwaited(c)
    /\ LET updated == SqlUpdateComment(db, calls[c].id, calls[c].comment)
       IN /\ db' = updated
          /\ sqliteQueue' = Append(sqliteQueue,
                                   [op |-> "put", caller |-> c, data |-> Export(updated)])
    /\ calls' = [calls EXCEPT ![c].pc = "persist"]
    /\ getRunsResult' = NoResult
    /\ UNCHANGED <<dbInitPromise, initPc, sqliteStore, imagesStore, imagesQueue, stamps,
                   lastReturnedId, ui, debugLog, fetchCall>>

(* ---------------------- the object store "sqlite" --------------------- *)

\* saveRun that selects last_insert_rowid() after its await
\* persistDatabase()
persistDatabase_saved_LateRowid(c) ==
    /\ sqliteQueue # <<>>
    /\ Head(sqliteQueue).op = "put"
    /\ Head(sqliteQueue).caller = c
    /\ sqliteStore' = Head(sqliteQueue).data
    /\ sqliteQueue' = Tail(sqliteQueue)
    /\ IF calls[c].op = "saveRun"
       THEN /\ calls' = [calls EXCEPT ![c].pc = "done", ![c].id = db.lastInsertRowid]
            /\ lastReturnedId' = db.lastInsertRowid
            /\ UNCHANGED imagesQueue
       ELSE IF calls[c].op = "updateRunComment"
       THEN /\ calls' = [calls EXCEPT ![c].pc = "done"]
            /\ UNCHANGED <<imagesQueue, lastReturnedId, ui, debugLog, fetchCall>>
       ELSE LET keys == ImagesToDelete(calls[c].row, calls[c].inputUsageCount)
            IN /\ calls' = [calls EXCEPT ![c].pc = "deleteImages", ![c].pending = Len(keys)]
               /\ imagesQueue' = imagesQueue \o DeleteRequests(c, keys)
               /\ UNCHANGED lastReturnedId
    /\ getRunsResult' = NoResult
    /\ UNCHANGED <<db, dbInitPromise, initPc, imagesStore, stamps, ui, debugLog, fetchCall>>

\* saveToIndexedDB(data) of a caller completed: saveRun returns its id,
\* updateRunComment returns, deleteRun goes on to delete the images
persistDatabase_saved(c) ==
    /\ sqliteQueue # <<>>
    /\ Head(sqliteQueue).op = "put"
    /\ Head(sqliteQueue).caller = c
    /\ sqliteStore' = Head(sqliteQueue).data
    /\ sqliteQueue' = Tail(sqliteQueue)
    /\ IF calls[c].op \in {"saveRun", "updateRunComment"}
       THEN /\ calls' = [calls EXCEPT ![c].pc = "done"]
            /\ UNCHANGED imagesQueue
       ELSE LET keys == ImagesToDelete(calls[c].row, calls[c].inputUsageCount)
            IN /\ calls' = [calls EXCEPT ![c].pc = "deleteImages", ![c].pending = Len(keys)]
               /\ imagesQueue' = imagesQueue \o DeleteRequests(c, keys)
    /\ lastReturnedId' = IF calls[c].op = "saveRun" THEN calls[c].id ELSE lastReturnedId
    /\ getRunsResult' = NoResult
    /\ UNCHANGED <<db, dbInitPromise, initPc, imagesStore, stamps, ui, debugLog, fetchCall>>

(* ---------------------- the object store "images" --------------------- *)

StorePut(store, key, data) ==
    [k \in DOMAIN store \cup {key} |-> IF k = key THEN data ELSE store[k]]

\* a delete that leaves the entry in the store
StoreDelete_Keeping(store, key) == store

StoreDelete(store, key) == [k \in DOMAIN store \ {key} |-> store[k]]

\* imageExists(imageId) answered: an existing image is reused, a missing
\* one is put
imageExists_answered(c) ==
    /\ imagesQueue # <<>>
    /\ Head(imagesQueue).op = "get"
    /\ Head(imagesQueue).caller = c
    /\ IF Head(imagesQueue).key \in DOMAIN imagesStore
       THEN /\ saveRun_imageSaved(c, TRUE, TRUE)
            /\ imagesQueue' = Tail(imagesQueue)
       ELSE /\ calls' = [calls EXCEPT ![c].pc = "put"]
            /\ imagesQueue' = Append(Tail(imagesQueue),
                                     [op |-> "put", caller |-> c, key |-> calls[c].inputImageId,
                                      data |-> calls[c].run.inputImage])
            /\ UNCHANGED <<db, sqliteQueue>>
    /\ getRunsResult' = NoResult
    /\ UNCHANGED <<dbInitPromise, initPc, sqliteStore, imagesStore, stamps,
                   lastReturnedId, ui, debugLog, fetchCall>>

\* store.put(data, imageId) of saveImageDeduped completed
saveImageDeduped_put(c) ==
    /\ imagesQueue # <<>>
    /\ Head(imagesQueue).op = "put"
    /\ Head(imagesQueue).caller = c
    /\ imagesStore' = StorePut(imagesStore, Head(imagesQueue).key, Head(imagesQueue).data)
    /\ imagesQueue' = Tail(imagesQueue)
    /\ saveRun_imageSaved(c, Head(imagesQueue).key = calls[c].inputImageId, TRUE)
    /\ getRunsResult' = NoResult
    /\ UNCHANGED <<dbInitPromise, initPc, sqliteStore, stamps,
                   lastReturnedId, ui, debugLog, fetchCall>>

\* a deleteImage in a database with one object store for both: the delete
\* removes the snapshot
deleteImage_deleted_OneStore(c) ==
    /\ imagesQueue # <<>>
    /\ Head(imagesQueue).op = "delete"
    /\ Head(imagesQueue).caller = c
    /\ sqliteStore' = NoSnapshot
    /\ imagesQueue' = Tail(imagesQueue)
    /\ calls' = [calls EXCEPT ![c].pending = @ - 1,
                              ![c].pc = IF calls[c].pending = 1 THEN "done" ELSE @]
    /\ getRunsResult' = NoResult
    /\ UNCHANGED <<db, dbInitPromise, initPc, imagesStore, sqliteQueue, stamps,
                   lastReturnedId, ui, debugLog, fetchCall>>

\* store.delete(imageId) of deleteImage completed; after the last one
\* deleteRun returns
deleteImage_deleted(c) ==
    /\ imagesQueue # <<>>
    /\ Head(imagesQueue).op = "delete"
    /\ Head(imagesQueue).caller = c
    /\ imagesStore' = StoreDelete(imagesStore, Head(imagesQueue).key)
    /\ imagesQueue' = Tail(imagesQueue)
    /\ calls' = [calls EXCEPT ![c].pending = @ - 1,
                              ![c].pc = IF calls[c].pending = 1 THEN "done" ELSE @]
    /\ getRunsResult' = NoResult
    /\ UNCHANGED <<db, dbInitPromise, initPc, sqliteStore, sqliteQueue, stamps,
                   lastReturnedId, ui, debugLog, fetchCall>>

\* the caller's await returned or threw (the continuations of the init
\* effect, of generate(), of the load-images effect and of handleDelete
\* are actions of their own; a load whose effect was cleaned up changes
\* nothing)
returned(c) ==
    /\ calls[c].pc \in {"done", "rejected"}
    /\ c \notin {ui.seedCall, ui.genCall, ui.loadCall}
    /\ c \notin ui.deleteCalls
    /\ calls' = [calls EXCEPT ![c] = IdleCall]
    /\ getRunsResult' = NoResult
    /\ UNCHANGED <<db, dbInitPromise, initPc, sqliteStore, imagesStore, sqliteQueue,
                   imagesQueue, stamps,
                   lastReturnedId, ui, debugLog, fetchCall>>

(* ------------------------------ getRuns ------------------------------- *)

\* the comparison of two TEXT values (bytewise, as SQLite's BINARY collation)
TextLess(a, b) ==
    \E i \in 1..Len(b) :
        /\ \A j \in 1..(i - 1) : j <= Len(a) /\ a[j] = b[j]
        /\ (i > Len(a) \/ a[i] < b[i])

\* ORDER BY created_at ASC
OrderedByCreatedAtAsc(records) ==
    \A i, j \in 1..Len(records) :
        i < j => ~TextLess(records[j].createdAt, records[i].createdAt)

\* ORDER BY created_at DESC: no row comes before one with a later created_at
OrderedByCreatedAtDesc(records) ==
    \A i, j \in 1..Len(records) :
        i < j => ~TextLess(records[i].createdAt, records[j].createdAt)

\* the orders SELECT ... FROM runs ORDER BY created_at DESC may return the
\* rows in: the order of rows with equal created_at is not specified
SelectAllOrdered(d) ==
    LET ids == DOMAIN d.rows
        n   == Cardinality(ids)
    IN {records \in {[i \in 1..n |-> RowToRecord(f[i], d.rows[f[i]])] :
                        f \in {g \in [1..n -> ids] : \A i, j \in 1..n : g[i] = g[j] => i = j}} :
           OrderedByCreatedAtDesc(records)}

(* ------------------------- loadImagesForRun --------------------------- *)

\* loadImage(imageId): getReq.result ?? null
loadImage(imageId) ==
    IF imageId \in DOMAIN imagesStore THEN imagesStore[imageId] ELSE Null

\* loadImagesForRun(run): inputImage ?? "", outputImage ?? ""
loadImagesForRun(run) ==
    [inputImage  |-> IF loadImage(run.inputImageId) = Null THEN ""
                     ELSE loadImage(run.inputImageId),
     outputImage |-> IF loadImage(run.outputImageId) = Null THEN ""
                     ELSE loadImage(run.outputImageId)]

\* getRunById(id) once the database is initialised
getRunById(id) == SelectById(db, id)

(* ----------------------- loadImagesForRun calls ----------------------- *)

\* loadImagesForRun that returns what loadImage returned
LoadedImages_AsLoaded(loaded) == [inputImage |-> loaded[1], outputImage |-> loaded[2]]

\* the result of loadImagesForRun: inputImage ?? "", outputImage ?? ""
LoadedImages(loaded) ==
    [inputImage  |-> IF loaded[1] = Null THEN "" ELSE loaded[1],
     outputImage |-> IF loaded[2] = Null THEN "" ELSE loaded[2]]

\* loadImagesForRun(run) is called with a record of the table: the two
\* loadImage calls of its Promise.all request their reads
loadImagesForRun_called(c, id, overlap) ==
    /\ FirstFree(c)
    /\ MayCall(overlap, "loadImagesForRun")
    /\ db.open
    /\ getRunById(id) # NoRecord
    /\ calls' = [calls EXCEPT ![c] = [IdleCall EXCEPT !.op = "loadImagesForRun",
                                                      !.pc = "load", !.id = id,
                                                      !.row = getRunById(id),
                                                      !.pending = 2]]
    /\ imagesQueue' = imagesQueue \o
                          <<[op |-> "load", caller |-> c,
                             key |-> getRunById(id).inputImageId, data |-> Null],
                            [op |-> "load", caller |-> c,
                             key |-> getRunById(id).outputImageId, data |-> Null]>>
    /\ getRunsResult' = NoResult
    /\ UNCHANGED <<db, dbInitPromise, initPc, sqliteStore, imagesStore, sqliteQueue,
                   stamps, lastReturnedId, ui, debugLog, fetchCall>>

\* store.get(imageId) of loadImage succeeded; after the second one
\* loadImagesForRun returns the two images
loadImage_answered(c) ==
    /\ imagesQueue # <<>>
    /\ Head(imagesQueue).op = "load"
    /\ Head(imagesQueue).caller = c
    /\ imagesQueue' = Tail(imagesQueue)
    /\ LET loaded == Append(calls[c].loaded, loadImage(Head(imagesQueue).key))
       IN calls' = [calls EXCEPT ![c].loaded = loaded,
                                 ![c].pending = @ - 1,
                                 ![c].pc = IF Len(loaded) = 2 THEN "done" ELSE @,
                                 ![c].images = IF Len(loaded) = 2 THEN LoadedImages(loaded)
                                               ELSE @]
    /\ getRunsResult' = NoResult
    /\ UNCHANGED <<db, dbInitPromise, initPc, sqliteStore, imagesStore, sqliteQueue,
                   stamps, lastReturnedId, ui, debugLog, fetchCall>>

(* --------------------------- getRuns calls ---------------------------- *)

\* getRuns() is called: await initDatabase()
getRuns_called(c, overlap) ==
    /\ FirstFree(c)
    /\ MayCall(overlap, "getRuns")
    /\ calls' = [calls EXCEPT ![c] = [IdleCall EXCEPT !.op = "getRuns", !.pc = "awaitInit",
                                                      !.waitInit = ~db.open]]
    /\ initDatabase_called
    /\ getRunsResult' = NoResult
    /\ UNCHANGED <<db, sqliteStore, imagesStore, sqliteQueue, imagesQueue, stamps,
                   lastReturnedId, ui, debugLog, fetchCall>>

\* getRuns that loads the two images of every row it returns
getRuns_selected_LoadingImages(c) ==
    /\ calls[c].op = "getRuns"
    /\ calls[c].pc = "awaitInit"
    /\ InitAwaited(c)
    /\ \E records \in SelectAllOrdered(db) :
         /\ getRunsResult' = [returned |-> TRUE, records |-> records]
         /\ imagesQueue' = imagesQueue \o
                [i \in 1..Len(records) |->
                    [op |-> "load", caller |-> c, key |-> records[i].outputImageId,
                     data |-> Null]]
    /\ calls' = [calls EXCEPT ![c].pc = "done"]
    /\ UNCHANGED <<db, dbInitPromise, initPc, sqliteStore, imagesStore, sqliteQueue,
                   stamps, lastReturnedId, ui, debugLog, fetchCall>>

\* the SELECT of getRuns and the mapping of its rows: the promise delivers
\* the records
getRuns_selected(c) ==
    /\ calls[c].op = "getRuns"
    /\ calls[c].pc = "awaitInit"
    /\ InitAwaited(c)
    /\ \E records \in SelectAllOrdered(db) :
         getRunsResult' = [returned |-> TRUE, records |-> records]
    /\ calls' = [calls EXCEPT ![c].pc = "done"]
    /\ UNCHANGED <<db, dbInitPromise, initPc, sqliteStore, imagesStore, sqliteQueue,
                   imagesQueue, stamps, lastReturnedId, ui, debugLog, fetchCall>>

(* -------------------------- failed requests --------------------------- *)

\* a write of saveImageDeduped may fail while fewer than MaxRuns saveRun
\* calls have taken their ids (a saveRun that fails there inserts no row)
BlobWriteMayFail == stamps < MaxRuns

\* await initSqlJs(...) threw: dbInitPromise is rejected, db stays null
initDatabase_sqlJsFailed ==
    /\ initPc = "initSqlJs"
    /\ initPc' = "failed"
    /\ dbInitPromise' = "rejected"
    /\ getRunsResult' = NoResult
    /\ UNCHANGED <<db, sqliteStore, imagesStore, sqliteQueue, imagesQueue, calls, stamps,
                   lastReturnedId, ui, debugLog, fetchCall>>

\* loadFromIndexedDB() rejected (getReq.onerror): dbInitPromise is rejected,
\* db stays null
initDatabase_loadFailed ==
    /\ sqliteQueue # <<>>
    /\ Head(sqliteQueue).op = "get"
    /\ sqliteQueue' = Tail(sqliteQueue)
    /\ initPc' = "failed"
    /\ dbInitPromise' = "rejected"
    /\ getRunsResult' = NoResult
    /\ UNCHANGED <<db, sqliteStore, imagesStore, imagesQueue, calls, stamps,
                   lastReturnedId, ui, debugLog, fetchCall>>

\* the first persistDatabase() rejected (tx.onerror of saveToIndexedDB):
\* dbInitPromise is rejected, db has been assigned before
initDatabase_persistFailed ==
    /\ sqliteQueue # <<>>
    /\ Head(sqliteQueue).op = "put"
    /\ Head(sqliteQueue).caller = 0
    /\ sqliteQueue' = Tail(sqliteQueue)
    /\ initPc' = "failed"
    /\ dbInitPromise' = "rejected"
    /\ getRunsResult' = NoResult
    /\ UNCHANGED <<db, sqliteStore, imagesStore, imagesQueue, calls, stamps,
                   lastReturnedId, ui, debugLog, fetchCall>>

\* await initDatabase() threw in a caller that was handed dbInitPromise
initDatabase_rejected(c) ==
    /\ AwaitsInit(c)
    /\ calls[c].waitInit
    /\ dbInitPromise = "rejected"
    /\ calls' = [calls EXCEPT ![c].pc = "rejected", ![c].failed = TRUE]
    /\ getRunsResult' = NoResult
    /\ UNCHANGED <<db, dbInitPromise, initPc, sqliteStore, imagesStore, sqliteQueue,
                   imagesQueue, stamps, lastReturnedId, ui, debugLog, fetchCall>>

\* imageExists(imageId) rejected (getReq.onerror): saveImageDeduped of the
\* input rejects
imageExists_failed(c) ==
    /\ BlobWriteMayFail
    /\ imagesQueue # <<>>
    /\ Head(imagesQueue).op = "get"
    /\ Head(imagesQueue).caller = c
    /\ imagesQueue' = Tail(imagesQueue)
    /\ saveRun_imageSaved(c, TRUE, FALSE)
    /\ getRunsResult' = NoResult
    /\ UNCHANGED <<dbInitPromise, initPc, sqliteStore, imagesStore, stamps,
                   lastReturnedId, ui, debugLog, fetchCall>>

\* store.put(data, imageId) of saveImageDeduped rejected (tx.onerror)
saveImageDeduped_putFailed(c) ==
    /\ BlobWriteMayFail
    /\ imagesQueue # <<>>
    /\ Head(imagesQueue).op = "put"
    /\ Head(imagesQueue).caller = c
    /\ imagesQueue' = Tail(imagesQueue)
    /\ saveRun_imageSaved(c, Head(imagesQueue).key = calls[c].inputImageId, FALSE)
    /\ getRunsResult' = NoResult
    /\ UNCHANGED <<dbInitPromise, initPc, sqliteStore, imagesStore, stamps,
                   lastReturnedId, ui, debugLog, fetchCall>>

\* saveToIndexedDB(data) of a caller rejected (tx.onerror): persistDatabase
\* and with it saveRun, updateRunComment or deleteRun reject
persistDatabase_failed(c) ==
    /\ sqliteQueue # <<>>
    /\ Head(sqliteQueue).op = "put"
    /\ Head(sqliteQueue).caller = c
    /\ sqliteQueue' = Tail(sqliteQueue)
    /\ calls' = [calls EXCEPT ![c].pc = "rejected", ![c].failed = TRUE]
    /\ getRunsResult' = NoResult
    /\ UNCHANGED <<db, dbInitPromise, initPc, sqliteStore, imagesStore, imagesQueue,
                   stamps, lastReturnedId, ui, debugLog, fetchCall>>

(* --------------------- the BookCoverLocalizer component ---------------- *)

\* the sample run of seedSampleDataIfEmpty
SampleRun ==
    [createdAt |-> <<2, 0>>, meta |-> "sample", inputImage |-> "CCC",
     outputImage |-> "BBB", humanComment |-> "ok"]

\* the runToSave of generate(): the input of the editor, the generated
\* image, the metrics of the generation, humanComment null
GeneratedRun ==
    [createdAt |-> <<2, 1>>, meta |-> "m1", inputImage |-> "AAA",
     outputImage |-> "BBB", humanComment |-> Null]

\* saveRun(run) up to its await initDatabase(), called by slot c
SaveRunCall(c, run) ==
    [calls EXCEPT ![c] = [IdleCall EXCEPT !.op = "saveRun", !.pc = "awaitInit",
                                          !.waitInit = ~db.open, !.run = run]]

\* the init effect runs when the component is mounted: initDatabase()
initEffect_mounted ==
    /\ ui.startup = "unmounted"
    /\ ui' = [ui EXCEPT !.startup = "initDatabase"]
    /\ initDatabase_called
    /\ getRunsResult' = NoResult
    /\ UNCHANGED <<db, sqliteStore, imagesStore, sqliteQueue, imagesQueue, calls, stamps,
                   lastReturnedId, debugLog, fetchCall>>

\* seedSampleDataIfEmpty that does not look at the table
initEffect_initialised_AlwaysSeeding ==
    /\ ui.startup = "initDatabase"
    /\ dbInitPromise = "fulfilled"
    /\ ui' = [ui EXCEPT !.startup = "fetch"]
    /\ getRunsResult' = NoResult
    /\ UNCHANGED <<db, dbInitPromise, initPc, sqliteStore, imagesStore, sqliteQueue,
                   imagesQueue, calls, stamps, lastReturnedId, debugLog, fetchCall>>

\* initDatabase() of the init effect is fulfilled: seedSampleDataIfEmpty()
\* awaits getRuns(); with a row it returns false and the effect sets
\* dbReady, without one it starts to fetch the two sample images
initEffect_initialised ==
    /\ ui.startup = "initDatabase"
    /\ dbInitPromise = "fulfilled"
    /\ \E runs \in SelectAllOrdered(db) :
         ui' = IF Len(runs) > 0
               THEN [ui EXCEPT !.startup = "ready", !.seeded = "false", !.dbReady = TRUE]
               ELSE [ui EXCEPT !.startup = "fetch"]
    /\ getRunsResult' = NoResult
    /\ UNCHANGED <<db, dbInitPromise, initPc, sqliteStore, imagesStore, sqliteQueue,
                   imagesQueue, calls, stamps, lastReturnedId, debugLog, fetchCall>>

\* fetch(url), response.blob() or the FileReader of a sample image
\* rejected: the catch of seedSampleDataIfEmpty returns false, the effect
\* sets dbReady
fetchImageAsDataUrl_failed ==
    /\ ui.startup = "fetch"
    /\ ui' = [ui EXCEPT !.startup = "ready", !.seeded = "false", !.seedFailure = TRUE,
                        !.dbReady = TRUE]
    /\ getRunsResult' = NoResult
    /\ UNCHANGED <<db, dbInitPromise, initPc, sqliteStore, imagesStore, sqliteQueue,
                   imagesQueue, calls, stamps, lastReturnedId, debugLog, fetchCall>>

\* both sample images are fetched: saveRun(sampleRun)
seedSampleDataIfEmpty_fetched(c) ==
    /\ ui.startup = "fetch"
    /\ FirstFree(c)
    /\ calls' = SaveRunCall(c, SampleRun)
    /\ initDatabase_called
    /\ ui' = [ui EXCEPT !.startup = "saveRun", !.seedCall = c]
    /\ getRunsResult' = NoResult
    /\ UNCHANGED <<db, sqliteStore, imagesStore, sqliteQueue, imagesQueue, stamps,
                   lastReturnedId, debugLog, fetchCall>>

\* seedSampleDataIfEmpty without its try and catch
seedSampleDataIfEmpty_saved_Rethrowing(c) ==
    /\ ui.startup = "saveRun"
    /\ ui.seedCall = c
    /\ calls[c].pc \in {"done", "rejected"}
    /\ ui' = IF calls[c].pc = "done"
             THEN [ui EXCEPT !.startup = "ready", !.seedCall = 0, !.seeded = "true",
                             !.dbReady = TRUE]
             ELSE [ui EXCEPT !.startup = "failed", !.seedCall = 0, !.seeded = "rejected",
                             !.seedFailure = TRUE]
    /\ calls' = [calls EXCEPT ![c] = IdleCall]
    /\ getRunsResult' = NoResult
    /\ UNCHANGED <<db, dbInitPromise, initPc, sqliteStore, imagesStore, sqliteQueue,
                   imagesQueue, stamps, lastReturnedId, debugLog, fetchCall>>

\* saveRun(sampleRun) settled: fulfilled, seedSampleDataIfEmpty returns
\* true; rejected, its catch returns false; the effect sets dbReady
seedSampleDataIfEmpty_saved(c) ==
    /\ ui.startup = "saveRun"
    /\ ui.seedCall = c
    /\ calls[c].pc \in {"done", "rejected"}
    /\ ui' = IF calls[c].pc = "done"
             THEN [ui EXCEPT !.startup = "ready", !.seedCall = 0, !.seeded = "true",
                             !.dbReady = TRUE]
             ELSE [ui EXCEPT !.startup = "ready", !.seedCall = 0, !.seeded = "false",
                             !.seedFailure = TRUE, !.dbReady = TRUE]
    /\ calls' = [calls EXCEPT ![c] = IdleCall]
    /\ getRunsResult' = NoResult
    /\ UNCHANGED <<db, dbInitPromise, initPc, sqliteStore, imagesStore, sqliteQueue,
                   imagesQueue, stamps, lastReturnedId, debugLog, fetchCall>>

\* the saveRun calls the page may still make are within MaxRuns
MayGenerate ==
    SeqNow + SavesInFlight
        + (IF ui.startup \in {"initDatabase", "fetch"} THEN 1 ELSE 0) < MaxRuns

\* the Generate button (rendered while there is no output, disabled while
\* isGenerating) is clicked: generate() of the current render, with the
\* dbReady of that render, sets isGenerating and awaits generateCover
generate_clicked ==
    /\ ui.startup # "unmounted"
    /\ ~ui.isGenerating
    /\ ~ui.hasOutput
    /\ ui.selectedRun = NoRecord
    /\ MayGenerate
    /\ ui' = [ui EXCEPT !.isGenerating = TRUE, !.closureDbReady = ui.dbReady,
                        !.generation = "running", !.saveRunCalls = 0, !.saved = "none",
                        !.before = LastRunState(ui)]
    /\ getRunsResult' = NoResult
    /\ UNCHANGED <<db, dbInitPromise, initPc, sqliteStore, imagesStore, sqliteQueue,
                   imagesQueue, calls, stamps, lastReturnedId, debugLog, fetchCall>>

\* generateCover settled.  Fulfilled: setOutputImage, setLastRun(result.metrics),
\* setLastRunComment(""), and if (dbReady) saveRun(runToSave); rejected:
\* setError.  Without a saveRun to await, finally: setIsGenerating(false)
generate_generated(c, ok) ==
    /\ ui.isGenerating
    /\ ui.generation = "running"
    /\ IF ok /\ ui.closureDbReady
       THEN /\ FirstFree(c)
            /\ calls' = SaveRunCall(c, GeneratedRun)
            /\ initDatabase_called
            /\ ui' = [ui EXCEPT !.generation = "succeeded", !.saveRunCalls = 1,
                                !.genCall = c, !.lastRun = GeneratedRun.meta,
                                !.lastRunComment = "", !.hasOutput = TRUE]
       ELSE /\ FirstFree(c)
            /\ UNCHANGED <<calls, dbInitPromise, initPc>>
            /\ ui' = IF ok
                     THEN [ui EXCEPT !.generation = "succeeded", !.isGenerating = FALSE,
                                     !.lastRun = GeneratedRun.meta, !.lastRunComment = "",
                                     !.hasOutput = TRUE]
                     ELSE [ui EXCEPT !.generation = "failed", !.isGenerating = FALSE]
    /\ getRunsResult' = NoResult
    /\ UNCHANGED <<db, sqliteStore, imagesStore, sqliteQueue, imagesQueue, stamps,
                   lastReturnedId, debugLog, fetchCall>>

\* saveRun(runToSave) of generate() settled: fulfilled, setLastRunId(runId);
\* rejected, the catch logs; finally: setIsGenerating(false)
generate_saved(c) ==
    /\ ui.genCall = c
    /\ calls[c].pc \in {"done", "rejected"}
    /\ ui' = IF calls[c].pc = "done"
             THEN [ui EXCEPT !.genCall = 0, !.isGenerating = FALSE, !.saved = "done",
                             !.lastRunId = calls[c].id]
             ELSE [ui EXCEPT !.genCall = 0, !.isGenerating = FALSE, !.saved = "rejected"]
    /\ calls' = [calls EXCEPT ![c] = IdleCall]
    /\ getRunsResult' = NoResult
    /\ UNCHANGED <<db, dbInitPromise, initPc, sqliteStore, imagesStore, sqliteQueue,
                   imagesQueue, stamps, lastReturnedId, debugLog, fetchCall>>

\* an image is pasted or uploaded and its FileReader has loaded it:
\* setInputImage(result), setOutputImage(null); the last run stays (with
\* no output set, the step changes nothing of ui)
inputImage_loaded ==
    /\ ui.startup # "unmounted"
    /\ ui.hasOutput
    /\ ui' = [ui EXCEPT !.hasOutput = FALSE]
    /\ getRunsResult' = NoResult
    /\ UNCHANGED <<db, dbInitPromise, initPc, sqliteStore, imagesStore, sqliteQueue,
                   imagesQueue, calls, stamps, lastReturnedId, debugLog, fetchCall>>

\* Start Over (rendered while there is an output or a history run is
\* viewed) is clicked: setOutputImage(null), setLastRun(null),
\* setLastRunId(null), setLastRunComment(""), setSelectedRun(null),
\* setViewingHistoryImages(null); Edit with no history run selected does
\* the same
handleStartOver ==
    /\ ui.hasOutput \/ ui.selectedRun # NoRecord
    /\ ui' = [ui EXCEPT !.hasOutput = FALSE, !.lastRun = Null, !.lastRunId = 0,
                        !.lastRunComment = "", !.selectedRun = NoRecord,
                        !.loadCall = 0, !.viewingHistoryImages = NoViewing]
    /\ getRunsResult' = NoResult
    /\ UNCHANGED <<db, dbInitPromise, initPc, sqliteStore, imagesStore, sqliteQueue,
                   imagesQueue, calls, stamps, lastReturnedId, debugLog, fetchCall>>

\* a run of the history sidebar (rendered when dbReady) other than the
\* selected one is clicked: setSelectedRun(run); the load-images effect is
\* cleaned up (cancelled = true for the load before) and runs again:
\* loadImagesForRun(selectedRun); viewingHistoryImages stays.  The sidebar
\* lists the runs whose saveRun has returned
history_selected(c, id) ==
    /\ ui.dbReady
    /\ db.open
    /\ getRunById(id) # NoRecord
    /\ \A d \in Callers : calls[d].op = "saveRun" => calls[d].id # id
    /\ id # ui.selectedRun.id
    /\ FirstFree(c)
    /\ calls' = [calls EXCEPT ![c] = [IdleCall EXCEPT !.op = "loadImagesForRun",
                                                      !.pc = "load", !.id = id,
                                                      !.row = getRunById(id),
                                                      !.pending = 2]]
    /\ imagesQueue' = imagesQueue \o
                          <<[op |-> "load", caller |-> c,
                             key |-> getRunById(id).inputImageId, data |-> Null],
                            [op |-> "load", caller |-> c,
                             key |-> getRunById(id).outputImageId, data |-> Null]>>
    /\ ui' = [ui EXCEPT !.selectedRun = getRunById(id), !.loadCall = c]
    /\ getRunsResult' = NoResult
    /\ UNCHANGED <<db, dbInitPromise, initPc, sqliteStore, imagesStore, sqliteQueue,
                   stamps, lastReturnedId, debugLog, fetchCall>>

\* "Back to editor" of the sidebar is clicked: setSelectedRun(null); the
\* effect is cleaned up and runs again: setViewingHistoryImages(null)
history_deselected ==
    /\ ui.selectedRun # NoRecord
    /\ ui' = [ui EXCEPT !.selectedRun = NoRecord, !.loadCall = 0,
                        !.viewingHistoryImages = NoViewing]
    /\ getRunsResult' = NoResult
    /\ UNCHANGED <<db, dbInitPromise, initPc, sqliteStore, imagesStore, sqliteQueue,
                   imagesQueue, calls, stamps, lastReturnedId, debugLog, fetchCall>>

\* loadImagesForRun(selectedRun) of the effect that is not cancelled is
\* fulfilled: setViewingHistoryImages({input, output, ...})
history_imagesLoaded(c) ==
    /\ ui.loadCall = c
    /\ calls[c].pc = "done"
    /\ ui' = [ui EXCEPT !.loadCall = 0,
                        !.viewingHistoryImages =
                            [set |-> TRUE, input |-> calls[c].images.inputImage,
                             output |-> calls[c].images.outputImage]]
    /\ calls' = [calls EXCEPT ![c] = IdleCall]
    /\ getRunsResult' = NoResult
    /\ UNCHANGED <<db, dbInitPromise, initPc, sqliteStore, imagesStore, sqliteQueue,
                   imagesQueue, stamps, lastReturnedId, debugLog, fetchCall>>

\* Edit is clicked while a history run is viewed: with viewingHistoryImages
\* set, setInputImage(viewingHistoryImages.input) and setReplacementText,
\* setPromptTemplate, setSelectedModel from selectedRun; then the output,
\* the last run and the history view are cleared
handleEditFromHistory ==
    /\ ui.selectedRun # NoRecord
    /\ ui' = [ui EXCEPT !.edited = IF ui.viewingHistoryImages.set
                                   THEN [set |-> TRUE,
                                         inputImage |-> ui.viewingHistoryImages.input,
                                         meta |-> ui.selectedRun.meta]
                                   ELSE @,
                        !.hasOutput = FALSE, !.lastRun = Null, !.lastRunId = 0,
                        !.lastRunComment = "", !.selectedRun = NoRecord,
                        !.loadCall = 0, !.viewingHistoryImages = NoViewing]
    /\ getRunsResult' = NoResult
    /\ UNCHANGED <<db, dbInitPromise, initPc, sqliteStore, imagesStore, sqliteQueue,
                   imagesQueue, calls, stamps, lastReturnedId, debugLog, fetchCall>>

\* handleDelete that deletes at the first click
handleDelete_armed_Deleting(id) ==
    /\ ui.selectedRun.id = id
    /\ ui.deleteConfirm # id
    /\ \E c \in Callers :
         /\ FirstFree(c)
         /\ calls' = [calls EXCEPT ![c] = [IdleCall EXCEPT !.op = "deleteRun",
                                                           !.pc = "getRunById",
                                                           !.waitInit = ~db.open,
                                                           !.id = id]]
         /\ ui' = [ui EXCEPT !.deleteCalls = @ \cup {c}, !.sinceClick[id] = 0, !.clicked = 1 - @,
                             !.deletionSince = [j \in 1..MaxRuns |-> j # id]]
    /\ initDatabase_called
    /\ getRunsResult' = NoResult
    /\ UNCHANGED <<db, sqliteStore, imagesStore, sqliteQueue, imagesQueue, stamps,
                   lastReturnedId, debugLog, fetchCall>>

\* the delete button of run id (rendered on the selected run) is clicked
\* while deleteConfirm is not id: setDeleteConfirm(id) and
\* setTimeout(() => setDeleteConfirm(null), 3000)
handleDelete_armed(id) ==
    /\ ui.selectedRun.id = id
    /\ ui.deleteConfirm # id
    /\ ui' = [ui EXCEPT !.deleteConfirm = id, !.timers = @ \cup {ConfirmSeconds},
                        !.sinceClick[id] = 0, !.clicked = 1 - @, !.deletionSince[id] = FALSE]
    /\ getRunsResult' = NoResult
    /\ UNCHANGED <<db, dbInitPromise, initPc, sqliteStore, imagesStore, sqliteQueue,
                   imagesQueue, calls, stamps, lastReturnedId, debugLog, fetchCall>>

\* the delete button of run id is clicked while deleteConfirm is id:
\* await deleteRun(id)
handleDelete_confirmed(c, id) ==
    /\ ui.selectedRun.id = id
    /\ ui.deleteConfirm = id
    /\ FirstFree(c)
    /\ calls' = [calls EXCEPT ![c] = [IdleCall EXCEPT !.op = "deleteRun", !.pc = "getRunById",
                                                      !.waitInit = ~db.open, !.id = id]]
    /\ initDatabase_called
    /\ ui' = [ui EXCEPT !.deleteCalls = @ \cup {c}, !.sinceClick[id] = 0, !.clicked = 1 - @,
                        !.deletionSince = [j \in 1..MaxRuns |-> j # id]]
    /\ getRunsResult' = NoResult
    /\ UNCHANGED <<db, sqliteStore, imagesStore, sqliteQueue, imagesQueue, stamps,
                   lastReturnedId, debugLog, fetchCall>>

\* deleteRun(id) of handleDelete settled: fulfilled, setRuns without the
\* run and, selectedRunId of the click being id, onSelectRun(null);
\* rejected, the catch logs; then setDeleteConfirm(null)
handleDelete_deleted(c) ==
    /\ c \in ui.deleteCalls
    /\ calls[c].pc \in {"done", "rejected"}
    /\ ui' = IF calls[c].pc = "done"
             THEN [ui EXCEPT !.deleteCalls = @ \ {c}, !.deleteConfirm = 0,
                             !.selectedRun = NoRecord, !.loadCall = 0,
                             !.viewingHistoryImages = NoViewing]
             ELSE [ui EXCEPT !.deleteCalls = @ \ {c}, !.deleteConfirm = 0]
    /\ calls' = [calls EXCEPT ![c] = IdleCall]
    /\ getRunsResult' = NoResult
    /\ UNCHANGED <<db, dbInitPromise, initPc, sqliteStore, imagesStore, sqliteQueue,
                   imagesQueue, stamps, lastReturnedId, debugLog, fetchCall>>

\* a timer of handleDelete has run out: setDeleteConfirm(null)
deleteConfirm_timedOut ==
    /\ 0 \in ui.timers
    /\ ui' = [ui EXCEPT !.deleteConfirm = 0, !.timers = @ \ {0}]
    /\ getRunsResult' = NoResult
    /\ UNCHANGED <<db, dbInitPromise, initPc, sqliteStore, imagesStore, sqliteQueue,
                   imagesQueue, calls, stamps, lastReturnedId, debugLog, fetchCall>>

\* a second passes (a timer that has run out fires before the next one)
second_passed ==
    /\ 0 \notin ui.timers
    /\ ui.timers # {} \/ \E id \in 1..MaxRuns : ui.sinceClick[id] <= ConfirmSeconds
    /\ ui' = [ui EXCEPT !.timers = {t - 1 : t \in @},
                        !.sinceClick = [id \in 1..MaxRuns |->
                                           IF @[id] <= ConfirmSeconds THEN @[id] + 1
                                           ELSE @[id]]]
    /\ getRunsResult' = NoResult
    /\ UNCHANGED <<db, dbInitPromise, initPc, sqliteStore, imagesStore, sqliteQueue,
                   imagesQueue, calls, stamps, lastReturnedId, debugLog, fetchCall>>

\* the comment box under the metrics of the last run (shown when there is
\* a last run and no generation is running) is typed into
setLastRunComment_typed ==
    /\ ui.lastRun # Null
    /\ ~ui.isGenerating
    /\ ui.lastRunComment = ""
    /\ ui' = [ui EXCEPT !.lastRunComment = "ok"]
    /\ getRunsResult' = NoResult
    /\ UNCHANGED <<db, dbInitPromise, initPc, sqliteStore, imagesStore, sqliteQueue,
                   imagesQueue, calls, stamps, lastReturnedId, debugLog, fetchCall>>

(* ----------------------- seedSampleDataIfEmpty calls ------------------- *)

\* seedSampleDataIfEmpty() is called: getRuns() awaits initDatabase()
seedSampleDataIfEmpty_called(c) ==
    /\ FirstFree(c)
    /\ calls' = [calls EXCEPT ![c] = [IdleCall EXCEPT !.op = "seedSampleDataIfEmpty",
                                                      !.pc = "awaitInit",
                                                      !.waitInit = ~db.open]]
    /\ initDatabase_called
    /\ getRunsResult' = NoResult
    /\ UNCHANGED <<db, sqliteStore, imagesStore, sqliteQueue, imagesQueue, stamps,
                   lastReturnedId, ui, debugLog, fetchCall>>

\* getRuns() returned: with a row seedSampleDataIfEmpty returns false,
\* without one it starts to fetch the two sample images
seedSampleDataIfEmpty_rowsRead(c) ==
    /\ calls[c].op = "seedSampleDataIfEmpty"
    /\ calls[c].pc = "awaitInit"
    /\ InitAwaited(c)
    /\ \E runs \in SelectAllOrdered(db) :
         calls' = [calls EXCEPT ![c].pc = IF Len(runs) > 0 THEN "done" ELSE "fetch"]
    /\ getRunsResult' = NoResult
    /\ UNCHANGED <<db, dbInitPromise, initPc, sqliteStore, imagesStore, sqliteQueue,
                   imagesQueue, stamps, lastReturnedId, ui, debugLog, fetchCall>>

\* both sample images are fetched: saveRun(sampleRun), whose return is the
\* return of seedSampleDataIfEmpty
seedSampleDataIfEmpty_sampleFetched(c) ==
    /\ calls[c].op = "seedSampleDataIfEmpty"
    /\ calls[c].pc = "fetch"
    /\ calls' = SaveRunCall(c, SampleRun)
    /\ initDatabase_called
    /\ getRunsResult' = NoResult
    /\ UNCHANGED <<db, sqliteStore, imagesStore, sqliteQueue, imagesQueue, stamps,
                   lastReturnedId, ui, debugLog, fetchCall>>

(* ---------------------------- the debug log --------------------------- *)

\* export const MAX_LOG_ENTRIES = 200
MAX_LOG_ENTRIES == 200

\* summarizeText(value, 600) of sanitizeDetails
DetailTextMax == 600

\* json.length > 1200 of sanitizeDetails
DetailJsonMax == 1200

\* a string value: lead its leading whitespace characters, dataUrl whether
\* the text after them starts with "data:", length the characters after
\* them
StringValue(lead, dataUrl, length) ==
    [kind |-> "string", lead |-> lead, dataUrl |-> dataUrl, length |-> length]

\* an object value with one string property, such as { image: "..." }
ObjectValue(image) == [kind |-> "object", image |-> image]

NullValue == [kind |-> "null"]

NumberValue == [kind |-> "number"]

\* value.startsWith('data:') || value.startsWith('data:image/')
startsWithData(value) == value.lead = 0 /\ value.dataUrl

\* summarizeText(text, max): trim(), then at most max characters and "…"
summarizeText(text, max) ==
    LET trimmed == [text EXCEPT !.lead = 0]
    IN IF trimmed.length <= max THEN trimmed
       ELSE [trimmed EXCEPT !.length = max + 1]

\* JSON.stringify(value).length of an object value: {"image":" and "} around
\* the characters of the string
JsonLength(value) == 10 + value.image.lead + value.image.length + 2

\* the body of the loop of sanitizeDetails: null stays, a data: URL string
\* is redacted, another string summarized, a number or boolean stays, any
\* other value stays unless its JSON is longer than DetailJsonMax, of which
\* then the first DetailJsonMax characters and "…" are kept
sanitizeValue(value) ==
    CASE value.kind = "null" -> value
      [] value.kind = "string" ->
            IF startsWithData(value) THEN [kind |-> "redacted", length |-> value.length]
            ELSE summarizeText(value, DetailTextMax)
      [] value.kind = "number" -> value
      [] OTHER ->
            IF JsonLength(value) > DetailJsonMax
            THEN [kind |-> "json", image |-> value.image, kept |-> DetailJsonMax - 10]
            ELSE value

\* details that are undefined
NoDetails == [defined |-> FALSE, fields |-> <<>>]

Details(fields) == [defined |-> TRUE, fields |-> fields]

\* sanitizeDetails(details)
sanitizeDetails(details) ==
    IF ~details.defined THEN details
    ELSE Details([key \in DOMAIN details.fields |-> sanitizeValue(details.fields[key])])

\* entries.slice(-MAX_LOG_ENTRIES)
LastEntries(entries) ==
    IF Len(entries) <= MAX_LOG_ENTRIES THEN entries
    ELSE SubSeq(entries, Len(entries) - MAX_LOG_ENTRIES + 1, Len(entries))

\* appendLog that keeps the oldest entries
appendLog_KeepingOldest(prev, entry) ==
    IF Len(prev) < MAX_LOG_ENTRIES THEN Append(prev, entry) ELSE prev

\* appendLog(prev, entry): [...prev, entry].slice(-MAX_LOG_ENTRIES)
appendLog(prev, entry) == LastEntries(Append(prev, entry))

\* JSON.stringify of an entry leaves out details that are undefined
JsonStringify(entries) ==
    [i \in 1..Len(entries) |->
        IF entries[i].details.defined
        THEN [ts |-> entries[i].ts, details |-> entries[i].details.fields]
        ELSE [ts |-> entries[i].ts]]

\* JSON.parse of the text of an array of entries; details of an entry
\* without the property are undefined
JsonParse(json) ==
    [i \in 1..Len(json) |->
        [ts |-> json[i].ts,
         details |-> IF "details" \in DOMAIN json[i] THEN Details(json[i].details)
                     ELSE NoDetails]]

\* localStorage without the item: getItem returns null
NoItem == [present |-> FALSE, json |-> <<>>]

\* saveDebugLog(entries): setItem(JSON.stringify(entries.slice(-MAX_LOG_ENTRIES)))
saveDebugLog(entries) == [present |-> TRUE, json |-> JsonStringify(LastEntries(entries))]

\* loadDebugLog(): without the item [], else restored.slice(-MAX_LOG_ENTRIES)
loadDebugLog ==
    IF ~debugLog.localStorage.present THEN <<>>
    ELSE LastEntries(JsonParse(debugLog.localStorage.json))

\* formatLogForClipboard(entries): of every entry its ts and action and the
\* JSON of its meta, with the details if it has any
formatLogForClipboard(entries) == JsonStringify(entries)

DebugLogInit ==
    [loaded |-> FALSE, entries |-> <<>>, localStorage |-> NoItem,
     clipboard |-> NoItem, appended |-> <<>>]

\* logEvent(action, { details }) on the debug log d: the entry with the
\* sanitized details is appended and the log saved
LogEvent(d, details) ==
    LET entry == [ts |-> Len(d.appended) + 1, details |-> sanitizeDetails(details)]
        next  == appendLog(d.entries, entry)
    IN [d EXCEPT !.entries = next, !.localStorage = saveDebugLog(next),
                 !.appended = Append(@, entry)]

\* the load effect of useDebugLog runs when the component is mounted:
\* setEntries(loadDebugLog())
useDebugLog_mounted ==
    /\ ~debugLog.loaded
    /\ debugLog' = [debugLog EXCEPT !.loaded = TRUE, !.entries = loadDebugLog]
    /\ getRunsResult' = NoResult
    /\ UNCHANGED <<db, dbInitPromise, initPc, sqliteStore, imagesStore, sqliteQueue,
                   imagesQueue, calls, stamps, lastReturnedId, ui, fetchCall>>

\* logEvent(action, { details }) is called, at most limit times
logEvent(details, limit) ==
    /\ debugLog.loaded
    /\ Len(debugLog.appended) < limit
    /\ debugLog' = LogEvent(debugLog, details)
    /\ getRunsResult' = NoResult
    /\ UNCHANGED <<db, dbInitPromise, initPc, sqliteStore, imagesStore, sqliteQueue,
                   imagesQueue, calls, stamps, lastReturnedId, ui, fetchCall>>

\* copyLogToClipboard(): writeText(formatLogForClipboard(entries)), then
\* logEvent('debug.copy_log.success', { details: { chars, entries } })
copyLogToClipboard(limit) ==
    /\ debugLog.loaded
    /\ Len(debugLog.appended) < limit
    /\ debugLog' =
           LogEvent([debugLog EXCEPT !.clipboard =
                         [present |-> TRUE,
                          json |-> formatLogForClipboard(debugLog.entries)]],
                    Details([key \in {"chars", "entries"} |-> NumberValue]))
    /\ getRunsResult' = NoResult
    /\ UNCHANGED <<db, dbInitPromise, initPc, sqliteStore, imagesStore, sqliteQueue,
                   imagesQueue, calls, stamps, lastReturnedId, ui, fetchCall>>

(* -------------------------- fetchJsonWithRetry ------------------------- *)

\* retries = 3
DefaultRetries == 3

\* delayMs = 800
DefaultDelayMs == 800

\* what an attempt may end with: the JSON of an ok response ("json"), a
\* response that is not ok ("http"), fetch rejected ("network"),
\* response.json() rejected ("parse")
AttemptOutcomes == {"json", "http", "network", "parse"}

NoSettlement == [kind |-> "none", attempt |-> 0]

\* no call of fetchJsonWithRetry: args are the arguments of the outermost
\* call, attempts the outcomes of the fetch attempts, waits the delays
\* waited, result the JSON returned or the error thrown, by the number of
\* the attempt it is of
NoFetch ==
    [pc |-> "idle", retries |-> 0, delayMs |-> 0,
     args |-> [retries |-> 0, delayMs |-> 0], attempts |-> <<>>, waits |-> <<>>,
     result |-> NoSettlement]

\* fetchJsonWithRetry(url, options, retries, delayMs) is called: await fetch
fetchJsonWithRetry_called(retries, delayMs) ==
    /\ fetchCall.pc = "idle"
    /\ fetchCall' = [NoFetch EXCEPT !.pc = "fetch", !.retries = retries,
                                    !.delayMs = delayMs,
                                    !.args = [retries |-> retries, delayMs |-> delayMs]]
    /\ getRunsResult' = NoResult
    /\ UNCHANGED <<db, dbInitPromise, initPc, sqliteStore, imagesStore, sqliteQueue,
                   imagesQueue, calls, stamps, lastReturnedId, ui, debugLog>>

\* fetchJsonWithRetry that gives up when retries < 0
fetch_settled_OneMore(outcome) ==
    /\ fetchCall.pc = "fetch"
    /\ LET n == Len(fetchCall.attempts) + 1
       IN fetchCall' =
              [fetchCall EXCEPT
                  !.attempts = Append(@, outcome),
                  !.pc = IF outcome = "json" THEN "returned"
                         ELSE IF fetchCall.retries < 0 THEN "rejected"
                         ELSE "wait",
                  !.result = IF outcome = "json" THEN [kind |-> "json", attempt |-> n]
                             ELSE IF fetchCall.retries < 0
                             THEN [kind |-> "error", attempt |-> n]
                             ELSE @]
    /\ getRunsResult' = NoResult
    /\ UNCHANGED <<db, dbInitPromise, initPc, sqliteStore, imagesStore, sqliteQueue,
                   imagesQueue, calls, stamps, lastReturnedId, ui, debugLog>>

\* the attempt ended: with the JSON of an ok response it is returned;
\* otherwise the catch throws the error if (retries <= 0), else it awaits
\* setTimeout(r, delayMs)
fetch_settled(outcome) ==
    /\ fetchCall.pc = "fetch"
    /\ LET n == Len(fetchCall.attempts) + 1
       IN fetchCall' =
              [fetchCall EXCEPT
                  !.attempts = Append(@, outcome),
                  !.pc = IF outcome = "json" THEN "returned"
                         ELSE IF fetchCall.retries <= 0 THEN "rejected"
                         ELSE "wait",
                  !.result = IF outcome = "json" THEN [kind |-> "json", attempt |-> n]
                             ELSE IF fetchCall.retries <= 0
                             THEN [kind |-> "error", attempt |-> n]
                             ELSE @]
    /\ getRunsResult' = NoResult
    /\ UNCHANGED <<db, dbInitPromise, initPc, sqliteStore, imagesStore, sqliteQueue,
                   imagesQueue, calls, stamps, lastReturnedId, ui, debugLog>>

\* the timer ran out: fetchJsonWithRetry(url, options, retries - 1,
\* delayMs * 2), whose result is the result of the call
setTimeout_fired ==
    /\ fetchCall.pc = "wait"
    /\ fetchCall' = [fetchCall EXCEPT !.pc = "fetch",
                                      !.waits = Append(@, fetchCall.delayMs),
                                      !.retries = @ - 1,
                                      !.delayMs = @ * 2]
    /\ getRunsResult' = NoResult
    /\ UNCHANGED <<db, dbInitPromise, initPc, sqliteStore, imagesStore, sqliteQueue,
                   imagesQueue, calls, stamps, lastReturnedId, ui, debugLog>>

\* the caller's await of fetchJsonWithRetry returned or threw
fetchJsonWithRetry_settled ==
    /\ fetchCall.pc \in {"returned", "rejected"}
    /\ fetchCall' = NoFetch
    /\ getRunsResult' = NoResult
    /\ UNCHANGED <<db, dbInitPromise, initPc, sqliteStore, imagesStore, sqliteQueue,
                   imagesQueue, calls, stamps, lastReturnedId, ui, debugLog>>

(* ------------------------- reload of the page ------------------------- *)

\* the page is loaded again: the module starts with db and dbInitPromise
\* null, the calls of the old page and their requests not yet served are
\* gone, the component is mounted anew, the two object stores stay
reload ==
    /\ initPc # "none"
    /\ stamps < MaxRuns
    /\ db' = ClosedDatabase
    /\ dbInitPromise' = "null"
    /\ initPc' = "none"
    /\ sqliteQueue' = <<>>
    /\ imagesQueue' = <<>>
    /\ calls' = [c \in Callers |-> IdleCall]
    /\ getRunsResult' = NoResult
    /\ ui' = UiInit
    /\ debugLog' = [debugLog EXCEPT !.loaded = FALSE, !.entries = <<>>]
    /\ fetchCall' = NoFetch
    /\ UNCHANGED <<sqliteStore, imagesStore, stamps, lastReturnedId>>

(* --------------------------- specifications --------------------------- *)

\* the RunInserts whose images vary: an input shared by several runs, two
\* inputs with one truncated hash, an output with the bytes of an input
ImageInserts ==
    [createdAt : {<<2, 0>>}, meta : {"m1"}, inputImage : {"AAA", "AAB", "CCC"},
     outputImage : {"AAA", "BBB"}, humanComment : {Null}]

\* the RunInserts whose metadata vary
MetadataInserts ==
    [createdAt : CreatedAts, meta : {"m1", "m2"}, inputImage : {"AAA"},
     outputImage : {"BBB"}, humanComment : {Null, "ok"}]

\* RunInserts no two of which have payloads with one truncated hash
DistinctInserts ==
    [createdAt : {<<2, 0>>}, meta : {"m1"}, inputImage : {"AAA", "CCC"},
     outputImage : {"BBB"}, humanComment : {Null}]

Init ==
    /\ db = ClosedDatabase
    /\ dbInitPromise = "null"
    /\ initPc = "none"
    /\ sqliteStore = NoSnapshot
    /\ imagesStore = [k \in {} |-> Null]
    /\ sqliteQueue = <<>>
    /\ imagesQueue = <<>>
    /\ calls = [c \in Callers |-> IdleCall]
    /\ stamps = 0
    /\ getRunsResult = NoResult
    /\ lastReturnedId = 0
    /\ ui = UiInit
    /\ debugLog = DebugLogInit
    /\ fetchCall = NoFetch

\* a step of saveRun, deleteRun, initDatabase or an object store
StoreStep(overlap, inserts, draws) ==
    \/ initDatabase_sqlJsLoaded
    \/ initDatabase_loaded
    \/ initDatabase_persisted
    \/ \E c \in Callers :
         \/ \E run \in inserts : saveRun_called(c, run, overlap)
         \/ saveRun_imagesStarted(c, draws)
         \/ saveRun_inputHashed(c)
         \/ imageExists_answered(c)
         \/ saveImageDeduped_put(c)
         \/ \E id \in 1..MaxRuns : deleteRun_called(c, id, overlap)
         \/ deleteRun_rowRead(c)
         \/ deleteRun_rowDeleted(c)
         \/ persistDatabase_saved(c)
         \/ deleteImage_deleted(c)
         \/ returned(c)

\* every interleaving of saveRun and deleteRun calls
Next == StoreStep("any", ImageInserts, "any")

Spec == Init /\ [][Next]_vars

\* deleteRun calls overlap one another (and saveRun calls one another), a
\* deleteRun never a saveRun
NextSameOverlap == StoreStep("same", ImageInserts, "any")

SpecSameOverlap == Init /\ [][NextSameOverlap]_vars

\* getRuns among every interleaving of saveRun and deleteRun calls
NextGetRuns ==
    \/ StoreStep("any", MetadataInserts, "any")
    \/ \E c \in Callers :
         \/ getRuns_called(c, "any")
         \/ getRuns_selected(c)

SpecGetRuns == Init /\ [][NextGetRuns]_vars

\* every interleaving of saveRun and deleteRun calls in the environment in
\* which no two keys collide: no Date.now() and Math.random() pair repeats
\* and no two payloads have one truncated hash
NextDistinctKeys == StoreStep("any", DistinctInserts, "new")

SpecDistinctKeys == Init /\ [][NextDistinctKeys]_vars

\* the comments updateRunComment is called with
Comments == {"ok"}

\* RunInserts that differ in their metadata
LifetimeInserts ==
    [createdAt : {<<2, 0>>}, meta : {"m1", "m2"}, inputImage : {"AAA"},
     outputImage : {"BBB"}, humanComment : {Null}]

\* the lifetime of the store: every interleaving of saveRun, deleteRun and
\* updateRunComment calls, and reloads of the page at any moment
NextLifetime ==
    \/ StoreStep("any", LifetimeInserts, "new")
    \/ \E c \in Callers :
         \/ \E id \in 1..MaxRuns, comment \in Comments :
              updateRunComment_called(c, id, comment, "any")
         \/ updateRunComment_updated(c)
    \/ reload

SpecLifetime == Init /\ [][NextLifetime]_vars

\* every interleaving of saveRun and deleteRun calls whose requests may
\* fail: the loading of sql.js, the read and the writes of the snapshot,
\* the reads and writes of the images
NextFailures ==
    \/ StoreStep("any", DistinctInserts, "new")
    \/ initDatabase_sqlJsFailed
    \/ initDatabase_loadFailed
    \/ initDatabase_persistFailed
    \/ \E c \in Callers :
         \/ initDatabase_rejected(c)
         \/ imageExists_failed(c)
         \/ saveImageDeduped_putFailed(c)
         \/ persistDatabase_failed(c)

SpecFailures == Init /\ [][NextFailures]_vars

\* loadImagesForRun among every interleaving of saveRun and deleteRun calls
NextLoadImages ==
    \/ StoreStep("any", DistinctInserts, "new")
    \/ \E c \in Callers :
         \/ \E id \in 1..MaxRuns : loadImagesForRun_called(c, id, "any")
         \/ loadImage_answered(c)

SpecLoadImages == Init /\ [][NextLoadImages]_vars

\* a step of the component, of initDatabase, or of a saveRun it called,
\* whose writes may fail
EditorStep ==
    \/ initEffect_mounted
    \/ initDatabase_sqlJsLoaded
    \/ initDatabase_loaded
    \/ initDatabase_persisted
    \/ initEffect_initialised
    \/ fetchImageAsDataUrl_failed
    \/ generate_clicked
    \/ setLastRunComment_typed
    \/ inputImage_loaded
    \/ handleStartOver
    \/ \E c \in Callers :
         \/ seedSampleDataIfEmpty_fetched(c)
         \/ seedSampleDataIfEmpty_saved(c)
         \/ \E ok \in BOOLEAN : generate_generated(c, ok)
         \/ generate_saved(c)
         \/ saveRun_imagesStarted(c, "new")
         \/ saveRun_inputHashed(c)
         \/ imageExists_answered(c)
         \/ saveImageDeduped_put(c)
         \/ persistDatabase_saved(c)
         \/ saveImageDeduped_putFailed(c)
         \/ persistDatabase_failed(c)

\* the editor: the init effect with its seeding, generations, and reloads
\* of the page at any moment
NextEditor ==
    \/ EditorStep
    \/ reload

SpecEditor == Init /\ [][NextEditor]_vars

\* one load of the page: the continuations of a settled promise run (the
\* microtask queue is drained after every task)
NextStartup == EditorStep

SpecStartup ==
    /\ Init
    /\ [][NextStartup]_vars
    /\ \A c \in Callers : WF_vars(seedSampleDataIfEmpty_saved(c))

\* the editor and its history sidebar: runs are selected, their images
\* load, Edit and Start Over are clicked
NextHistory ==
    \/ EditorStep
    \/ history_deselected
    \/ handleEditFromHistory
    \/ \E c \in Callers :
         \/ \E id \in 1..MaxRuns : history_selected(c, id)
         \/ history_imagesLoaded(c)
         \/ loadImage_answered(c)
         \/ returned(c)

SpecHistory == Init /\ [][NextHistory]_vars

\* the history sidebar: the page starts, seeds the sample and generates,
\* runs are selected, their delete buttons are clicked, time passes
NextSidebar ==
    \/ initEffect_mounted
    \/ initDatabase_sqlJsLoaded
    \/ initDatabase_loaded
    \/ initDatabase_persisted
    \/ initEffect_initialised
    \/ generate_clicked
    \/ deleteConfirm_timedOut
    \/ second_passed
    \/ \E id \in 1..MaxRuns : handleDelete_armed(id)
    \/ \E c \in Callers :
         \/ seedSampleDataIfEmpty_fetched(c)
         \/ seedSampleDataIfEmpty_saved(c)
         \/ generate_generated(c, TRUE)
         \/ generate_saved(c)
         \/ saveRun_imagesStarted(c, "new")
         \/ saveRun_inputHashed(c)
         \/ imageExists_answered(c)
         \/ saveImageDeduped_put(c)
         \/ persistDatabase_saved(c)
         \/ \E id \in 1..MaxRuns :
              \/ history_selected(c, id)
              \/ handleDelete_confirmed(c, id)
         \/ history_imagesLoaded(c)
         \/ loadImage_answered(c)
         \/ handleDelete_deleted(c)
         \/ deleteRun_rowRead(c)
         \/ deleteRun_rowDeleted(c)
         \/ deleteImage_deleted(c)
         \/ returned(c)

SpecSidebar == Init /\ [][NextSidebar]_vars

\* the logEvent calls whose details vary
MaxDetailEvents == 2

\* the values of a property of details: null, a number, strings that are
\* short or longer than DetailTextMax, with or without leading whitespace,
\* data: URLs, and objects with a string that is short or makes their JSON
\* longer than DetailJsonMax
DetailValues ==
    {NullValue, NumberValue,
     StringValue(0, FALSE, 7), StringValue(1, FALSE, 7),
     StringValue(1, FALSE, DetailTextMax + 1),
     StringValue(0, TRUE, 7), StringValue(0, TRUE, DetailTextMax + 1),
     ObjectValue(StringValue(0, FALSE, 7)), ObjectValue(StringValue(0, TRUE, 7)),
     ObjectValue(StringValue(0, TRUE, DetailJsonMax))}

\* the details logEvent is called with: undefined, or an object with one
\* property
DetailInputs ==
    {NoDetails} \cup {Details([key \in {"image"} |-> value]) : value \in DetailValues}

\* the debug log with details of every kind: the page is loaded, events
\* are logged, the log is copied, the page is loaded again
NextSanitize ==
    \/ initEffect_mounted
    \/ useDebugLog_mounted
    \/ \E details \in DetailInputs : logEvent(details, MaxDetailEvents)
    \/ copyLogToClipboard(MaxDetailEvents + 1)
    \/ reload

SpecSanitize == Init /\ [][NextSanitize]_vars

\* the logEvent calls of the log that fills up: more than MAX_LOG_ENTRIES
MaxLogEvents == 203

\* the debug log filling up: the page is loaded, events are logged, the
\* page is loaded again
NextDebugLog ==
    \/ initEffect_mounted
    \/ useDebugLog_mounted
    \/ logEvent(NoDetails, MaxLogEvents)
    \/ reload

SpecDebugLog == Init /\ [][NextDebugLog]_vars

\* the arguments fetchJsonWithRetry is called with
RetriesInputs == 0..DefaultRetries

DelayInputs == {DefaultDelayMs, 1}

\* calls of fetchJsonWithRetry one after another whose attempts end in any
\* way; every fetch settles and every timer runs out
NextFetch ==
    \/ \E retries \in RetriesInputs, delayMs \in DelayInputs :
         fetchJsonWithRetry_called(retries, delayMs)
    \/ \E outcome \in AttemptOutcomes : fetch_settled(outcome)
    \/ setTimeout_fired
    \/ fetchJsonWithRetry_settled

SpecFetch ==
    /\ Init
    /\ [][NextFetch]_vars
    /\ WF_vars(\E outcome \in AttemptOutcomes : fetch_settled(outcome))
    /\ WF_vars(setTimeout_fired)

\* saveRun and deleteRun calls one after another, the page stopping and
\* being loaded again at any moment (the requests not yet served are lost)
NextCrash ==
    \/ StoreStep("none", ImageInserts, "any")
    \/ reload

SpecCrash == Init /\ [][NextCrash]_vars

\* the same in the environment in which no Date.now() and Math.random()
\* pair repeats
NextCrashNewKeys ==
    \/ StoreStep("none", ImageInserts, "new")
    \/ reload

SpecCrashNewKeys == Init /\ [][NextCrashNewKeys]_vars

\* seedSampleDataIfEmpty called any number of times, the calls overlapping
\* or not, on a store that is empty at first
NextSeeding ==
    \/ initDatabase_sqlJsLoaded
    \/ initDatabase_loaded
    \/ initDatabase_persisted
    \/ \E c \in Callers :
         \/ seedSampleDataIfEmpty_called(c)
         \/ seedSampleDataIfEmpty_rowsRead(c)
         \/ seedSampleDataIfEmpty_sampleFetched(c)
         \/ saveRun_imagesStarted(c, "new")
         \/ saveRun_inputHashed(c)
         \/ imageExists_answered(c)
         \/ saveImageDeduped_put(c)
         \/ persistDatabase_saved(c)
         \/ returned(c)

SpecSeeding == Init /\ [][NextSeeding]_vars

(* ------------------------------ properties ---------------------------- *)

\* the rows of the table that reference image k
ReferencingRows(d, k) ==
    {id \in DOMAIN d.rows : d.rows[id].input_image_id = k \/ d.rows[id].output_image_id = k}

\* C1: in every reachable state, whatever the interleaving of saveRun and
\* deleteRun calls, every row of runs has an input_image_id and an
\* output_image_id that are both keys of the images store.
C1_RowsReferenceStoredImages ==
    \A id \in DOMAIN db.rows :
        /\ db.rows[id].input_image_id \in DOMAIN imagesStore
        /\ db.rows[id].output_image_id \in DOMAIN imagesStore

\* C2: a step that removes a key from the images store is taken only when
\* no row of runs (the deleted row is gone by then) has that key as its
\* input_image_id or output_image_id.
C2_DeletedOnlyWhenUnreferenced ==
    [][\A k \in DOMAIN imagesStore :
          k \notin DOMAIN imagesStore' => ReferencingRows(db, k) = {}]_vars

\* run B shares its input image with the run of deleteRun call c, which
\* counts it now or counted a run with this input
SharesInput(c, B) ==
    /\ B \in DOMAIN db.rows
    /\ B # calls[c].id
    /\ db.rows[B].input_image_id = calls[c].row.inputImageId
    /\ calls[c].pc = "awaitInit" \/ calls[c].inputUsageCount > 0

\* C3: when runs A and B share an input image, no step of deleteRun(A), up
\* to its return, changes what getRunById(B) returns or the input image
\* loadImagesForRun(B) loads.
C3_SiblingKeepsItsInput ==
    [][\A c \in Callers : \A B \in 1..MaxRuns :
          (calls[c].op = "deleteRun" /\ calls'[c] # calls[c] /\ SharesInput(c, B)) =>
              /\ getRunById(B)' = getRunById(B)
              /\ loadImagesForRun(getRunById(B))'.inputImage
                     = loadImagesForRun(getRunById(B)).inputImage]_vars

\* a deleteRun(A) that counted a sibling has returned; the sibling is in the
\* table and its input loads
C3_Witness ==
    \E c \in Callers : \E B \in DOMAIN db.rows :
        /\ calls[c].op = "deleteRun"
        /\ calls[c].pc = "done"
        /\ calls[c].inputUsageCount > 0
        /\ B # calls[c].id
        /\ db.rows[B].input_image_id = calls[c].row.inputImageId
        /\ loadImagesForRun(getRunById(B)).inputImage = "AAA"

\* C4: in the step that completes deleteRun(id) the output image of the run
\* is absent from the images store, and so is its input image when no other
\* row had it as input_image_id.
C4_DeleteRunRemovesImages ==
    [][\A c \in Callers :
          (calls[c].op = "deleteRun" /\ calls[c].pc = "deleteImages" /\ calls'[c].pc = "done") =>
              /\ calls[c].row.outputImageId \notin DOMAIN imagesStore'
              /\ calls[c].inputUsageCount = 0 =>
                     calls[c].row.inputImageId \notin DOMAIN imagesStore']_vars

\* two runs shared an input; the deleteRun of the first kept it, the
\* deleteRun of the last has removed it
C4_Witness ==
    \E c, d \in Callers :
        /\ calls[c].op = "deleteRun" /\ calls[c].pc = "done"
        /\ calls[d].op = "deleteRun" /\ calls[d].pc = "done"
        /\ calls[c].id # calls[d].id
        /\ calls[d].inputUsageCount > 0
        /\ calls[c].inputUsageCount = 0
        /\ calls[c].row.inputImageId = calls[d].row.inputImageId
        /\ calls[c].row.inputImageId \notin DOMAIN imagesStore
        /\ DOMAIN db.rows = {}

\* the step in which saveImageDeduped(run.inputImage, false) of caller c
\* returns
DedupWriteReturns(c) ==
    /\ calls[c].op = "saveRun"
    /\ calls[c].pc \in {"exists", "put"}
    /\ calls'[c].pc \in {"stored", "persist"}

\* C5 (as stated): every saveImageDeduped(B, false) returns the same key,
\* and when it returns the images store holds exactly one entry whose
\* content is B.
C5_ExactlyOneCopy ==
    [][\A c \in Callers :
          DedupWriteReturns(c) =>
              /\ calls'[c].inputImageId = hashImage(calls[c].run.inputImage)
              /\ Cardinality({k \in DOMAIN imagesStore' :
                                 imagesStore'[k] = calls[c].run.inputImage}) = 1]_vars

\* C5 (amended): every saveImageDeduped(B, false) returns hashImage(B), and
\* when it returns the images store holds exactly one content-addressed
\* entry for that key, under that key, whose content has the truncated
\* hash of B.
C5_OneContentAddressedEntry ==
    [][\A c \in Callers :
          DedupWriteReturns(c) =>
              LET key == calls'[c].inputImageId
              IN /\ key = hashImage(calls[c].run.inputImage)
                 /\ key \in DOMAIN imagesStore'
                 /\ {k \in DOMAIN imagesStore' :
                        IsHashKey(k) /\ hashImage(imagesStore'[k]) = key} = {key}]_vars

\* two saveImageDeduped("AAA", false) have returned, with one key, and one
\* content-addressed entry holds "AAA"
C5_Witness ==
    \E c, d \in Callers :
        /\ c # d
        /\ calls[c].op = "saveRun" /\ calls[c].pc \in {"stored", "persist", "done"}
        /\ calls[d].op = "saveRun" /\ calls[d].pc \in {"stored", "persist", "done"}
        /\ calls[c].run.inputImage = "AAA"
        /\ calls[d].run.inputImage = "AAA"
        /\ calls[c].inputImageId = calls[d].inputImageId
        /\ {k \in DOMAIN imagesStore : IsHashKey(k)} = {hashImage("AAA")}
        /\ imagesStore[hashImage("AAA")] = "AAA"

\* C6: two saveImageDeduped(B, true) never return one key: the output keys
\* of two rows differ, a put under a unique key meets no entry, and the key
\* a saveRun got for its output resolves to that output.
C6_UniqueWritesNeverCollide ==
    /\ \A i, j \in DOMAIN db.rows :
           i # j => db.rows[i].output_image_id # db.rows[j].output_image_id
    /\ (imagesQueue # <<>> /\ Head(imagesQueue).op = "put" /\ ~IsHashKey(Head(imagesQueue).key))
           => Head(imagesQueue).key \notin DOMAIN imagesStore
    /\ \A c \in Callers :
           (calls[c].op = "saveRun" /\ calls[c].pc \in {"persist", "done"}
              /\ calls[c].outputImageId \in DOMAIN imagesStore)
           => imagesStore[calls[c].outputImageId] = calls[c].run.outputImage

\* C7: in the step in which id = saveRun(r) returns, unless a deleteRun(id)
\* has removed the row, getRunById(id) has the metadata of r and
\* loadImagesForRun loads r.inputImage and r.outputImage.
C7_RoundTrip ==
    [][\A c \in Callers :
          (calls[c].op = "saveRun" /\ calls[c].pc = "persist" /\ calls'[c].pc = "done"
             /\ calls[c].id \in DOMAIN db'.rows) =>
              LET r == calls[c].run
              IN /\ getRunById(calls[c].id)'.createdAt = r.createdAt
                 /\ getRunById(calls[c].id)'.meta = r.meta
                 /\ getRunById(calls[c].id)'.humanComment = r.humanComment
                 /\ loadImagesForRun(getRunById(calls[c].id))'.inputImage = r.inputImage
                 /\ loadImagesForRun(getRunById(calls[c].id))'.outputImage = r.outputImage]_vars

\* the rows of the table have pairwise distinct created_at
DistinctCreatedAt(d) ==
    \A i, j \in DOMAIN d.rows : i # j => d.rows[i].created_at # d.rows[j].created_at

\* C8: when the stored runs have pairwise distinct created_at, getRuns
\* returns exactly the stored runs, each once, the later created_at first,
\* whatever order they were inserted in.
C8_OrderedByCreatedAt ==
    (getRunsResult.returned /\ DistinctCreatedAt(db)) =>
        LET records == getRunsResult.records
        IN /\ Len(records) = Cardinality(DOMAIN db.rows)
           /\ \A id \in DOMAIN db.rows :
                  \E i \in 1..Len(records) : records[i] = RowToRecord(id, db.rows[id])
           /\ \A i, j \in 1..Len(records) :
                  i < j => TextLess(records[j].createdAt, records[i].createdAt)

\* getRuns returned two runs, the one inserted first with the later
\* created_at
C8_Witness ==
    /\ getRunsResult.returned
    /\ DistinctCreatedAt(db)
    /\ Len(getRunsResult.records) = 2
    /\ getRunsResult.records[1].id < getRunsResult.records[2].id
    /\ TextLess(getRunsResult.records[2].createdAt, getRunsResult.records[1].createdAt)

\* C9: of two runs with equal created_at getRuns returns the one with the
\* larger id first.
C9_TiesByIdDescending ==
    getRunsResult.returned =>
        LET records == getRunsResult.records
        IN \A i, j \in 1..Len(records) :
               (i < j /\ records[i].createdAt = records[j].createdAt)
                   => records[i].id > records[j].id

\* deleteRun calls c and d are for one id, both found the row and both are
\* past their DELETE
DeletedTwice(c, d) ==
    /\ c # d
    /\ calls[c].op = "deleteRun" /\ calls[d].op = "deleteRun"
    /\ calls[c].id = calls[d].id
    /\ calls[c].row # NoRecord /\ calls[d].row # NoRecord
    /\ calls[c].pc \in {"persist", "deleteImages", "done"}
    /\ calls[d].pc \in {"persist", "deleteImages", "done"}

\* C10: when deleteRun calls overlap only one another, a deleteRun(id) that
\* finds no row returns with nothing changed; a step of deleteRun(id)
\* removes no row but id and no image but the output of the run and its
\* input when no row has it as input_image_id; and two deleteRun(id) that
\* both found the row delete the same images.
C10_DeleteTwice ==
    [][\A c \in Callers :
          (calls[c].op = "deleteRun" /\ calls'[c] # calls[c]) =>
              /\ \A i \in DOMAIN db.rows \ {calls[c].id} :
                     i \in DOMAIN db'.rows /\ db'.rows[i] = db.rows[i]
              /\ DOMAIN db'.rows \subseteq DOMAIN db.rows
              /\ (calls[c].pc = "getRunById" /\ calls[c].id \notin DOMAIN db.rows) =>
                     /\ calls'[c].pc = "done"
                     /\ UNCHANGED <<db, sqliteStore, imagesStore, sqliteQueue, imagesQueue>>
              /\ \A k \in DOMAIN imagesStore \ DOMAIN imagesStore' :
                     \/ k = calls[c].row.outputImageId
                     \/ /\ k = calls[c].row.inputImageId
                        /\ \A i \in DOMAIN db.rows : db.rows[i].input_image_id # k
              /\ \A k \in DOMAIN imagesStore \cap DOMAIN imagesStore' :
                     imagesStore'[k] = imagesStore[k]
              /\ \A d \in Callers :
                     DeletedTwice(c, d)' =>
                         /\ calls'[c].row = calls'[d].row
                         /\ calls'[c].inputUsageCount = calls'[d].inputUsageCount]_vars

\* two overlapping deleteRun(id) that both found the row have returned, and
\* so has no other row or image of another row changed: the other run is in
\* the table with both its images
C10_Witness ==
    \E c, d \in Callers : \E B \in DOMAIN db.rows :
        /\ DeletedTwice(c, d)
        /\ calls[c].pc = "done" /\ calls[d].pc = "done"
        /\ db.rows[B].input_image_id = calls[c].row.inputImageId
        /\ db.rows[B].input_image_id \in DOMAIN imagesStore
        /\ db.rows[B].output_image_id \in DOMAIN imagesStore

\* new is old with, at most, another human_comment
SameButComment(old, new) == [new EXCEPT !.human_comment = old.human_comment] = old

\* the step in which updateRunComment of caller c runs its UPDATE
UpdatesComment(c) ==
    /\ calls[c].op = "updateRunComment"
    /\ calls[c].pc = "awaitInit"
    /\ calls'[c].pc = "persist"

\* C11: updateRunComment(id, text) changes only the human_comment of the row
\* with that id: the other columns of that row, every other row and the
\* images store stay as they were; and in no step of any operation does a
\* column other than human_comment of a row that stays in the table change.
C11_OnlyCommentChanges ==
    [][/\ \A id \in DOMAIN db.rows \cap DOMAIN db'.rows :
             SameButComment(db.rows[id], db'.rows[id])
       /\ \A c \in Callers :
             UpdatesComment(c) =>
                 /\ DOMAIN db'.rows = DOMAIN db.rows
                 /\ \A id \in DOMAIN db.rows \ {calls[c].id} : db'.rows[id] = db.rows[id]
                 /\ db'.seq = db.seq
                 /\ imagesStore' = imagesStore]_vars

\* an updateRunComment has set the comment of one of two rows
C11_Witness ==
    \E c \in Callers :
        /\ calls[c].op = "updateRunComment"
        /\ calls[c].pc = "done"
        /\ Cardinality(DOMAIN db.rows) = 2
        /\ calls[c].id \in DOMAIN db.rows
        /\ db.rows[calls[c].id].human_comment = "ok"
        /\ \E id \in DOMAIN db.rows : db.rows[id].human_comment = Null

\* C12: however many initDatabase calls are made before the initialisation
\* has finished (by saveRun, updateRunComment or deleteRun), one database
\* is constructed in a page: the initialisation is started once, by a call
\* that finds neither db nor dbInitPromise set; db is assigned in its load
\* step only and stays until the page is left; and every call goes on from
\* its await initDatabase() with that database.
C12_OneDatabase ==
    [][/\ initPc' = "initSqlJs" =>
             initPc = "initSqlJs" \/ (initPc = "none" /\ ~db.open /\ dbInitPromise = "null")
       /\ (~db.open /\ db'.open) => (initPc = "load" /\ initPc' = "persist")
       /\ (db.open /\ ~db'.open) => initPc' = "none"
       /\ (initPc' # initPc /\ initPc' # "none") =>
             <<initPc, initPc'>> \in {<<"none", "initSqlJs">>, <<"initSqlJs", "load">>,
                                      <<"load", "persist">>, <<"persist", "done">>}
       /\ \A c \in Callers :
             (AwaitsInit(c) /\ calls'[c].pc \notin {calls[c].pc, "idle"}) =>
                 (db.open /\ (calls[c].waitInit => dbInitPromise = "fulfilled"))]_vars

\* two calls made before the initialisation had finished have both gone on
\* from their await
C12_Witness ==
    /\ db.open
    /\ \A c \in Callers : calls[c].waitInit /\ calls[c].pc = "done"
    /\ \E c \in Callers : calls[c].op = "saveRun"
    /\ \E c \in Callers : calls[c].op = "updateRunComment"

\* C13: once the initialisation has failed (dbInitPromise is rejected), no
\* await initDatabase() of any call returns a database: no saveRun or
\* deleteRun goes on to work on the in-memory store.
C13_FailedInitStaysFailed ==
    [][dbInitPromise = "rejected" =>
           \A c \in Callers :
               ~(AwaitsInit(c) /\ calls'[c].pc \notin {calls[c].pc, "idle", "rejected"})]_vars

\* call is a saveRun that has failed before its INSERT
FailedBeforeInsert(call) == call.op = "saveRun" /\ call.failed /\ call.id = 0

\* C14: a saveRun one of whose two image writes failed is rejected, inserts
\* no row and flushes no snapshot: from the failure on no step of the call
\* changes the table or the snapshot or requests a write of the snapshot,
\* the call takes no id, and it is rejected once both writes have settled.
C14_FailedBlobWriteInsertsNothing ==
    [][\A c \in Callers :
           /\ (FailedBeforeInsert(calls'[c]) /\ calls'[c] # calls[c]) =>
                  /\ db' = db
                  /\ sqliteStore' = sqliteStore
                  /\ \A i \in 1..Len(sqliteQueue') : sqliteQueue'[i].caller # c
                  /\ calls'[c].pending = 0 => calls'[c].pc = "rejected"
           /\ (calls[c].op = "saveRun" /\ calls[c].failed /\ calls[c].pc # "rejected") =>
                  FailedBeforeInsert(calls'[c])
           /\ FailedBeforeInsert(calls[c]) =>
                  calls'[c].op = "idle" \/ FailedBeforeInsert(calls'[c])]_vars

\* a saveRun whose input write failed after its output was stored has been
\* rejected
C14_Witness ==
    \E c \in Callers :
        /\ FailedBeforeInsert(calls[c])
        /\ calls[c].pc = "rejected"
        /\ calls[c].outputImageId \in DOMAIN imagesStore
        /\ calls[c].inputImageId \notin DOMAIN imagesStore
        /\ ~calls[c].waitInit

\* C15: a saveRun that has been rejected, at whatever step it failed, has
\* left no row in the table.
C15_RejectedSaveLeavesNoRow ==
    \A c \in Callers :
        (calls[c].op = "saveRun" /\ calls[c].pc = "rejected") =>
            calls[c].id \notin DOMAIN db.rows

\* caller c runs its INSERT, UPDATE or DELETE in this step
Mutates(c) ==
    /\ calls[c].op \in {"saveRun", "updateRunComment", "deleteRun"}
    /\ calls[c].pc \notin {"persist", "done"}
    /\ calls'[c].pc \in {"persist", "done"}
    /\ calls[c].op = "deleteRun" => calls[c].pc = "awaitInit"

\* caller c's promise is fulfilled in this step
Resolves(c) == calls[c].pc \notin {"done", "idle"} /\ calls'[c].pc = "done"

\* C16: the step of saveRun, updateRunComment or deleteRun that changes the
\* table also requests the write of the export of the whole changed table,
\* and the call is at its await of that write; nothing else changes the
\* table of an open database; and when the promise of the call is
\* fulfilled the snapshot in the sqlite object store holds the mutation:
\* the row saveRun inserted, the comment updateRunComment set, no row with
\* the id deleteRun deleted.
C16_ResolvesAfterFlush ==
    [][/\ \A c \in Callers :
             Mutates(c) =>
                 /\ calls'[c].pc = "persist"
                 /\ sqliteQueue' = Append(sqliteQueue,
                                          [op |-> "put", caller |-> c, data |-> Export(db')])
       /\ (db.open /\ db'.open /\ db' # db) => \E c \in Callers : Mutates(c)
       /\ \A c \in Callers :
             Resolves(c) =>
                 /\ calls[c].op = "saveRun" =>
                        /\ calls[c].id \in DOMAIN sqliteStore'.rows
                        /\ sqliteStore'.rows[calls[c].id] =
                               InsertedRow(calls[c].run, calls[c].inputImageId,
                                           calls[c].outputImageId)
                 /\ calls[c].op = "updateRunComment" =>
                        \A id \in DOMAIN sqliteStore'.rows \cap {calls[c].id} :
                            sqliteStore'.rows[id].human_comment = calls[c].comment
                 /\ (calls[c].op = "deleteRun" /\ calls[c].row # NoRecord) =>
                        calls[c].id \notin DOMAIN sqliteStore'.rows]_vars

\* an updateRunComment and a deleteRun have both returned: the snapshot
\* holds the comment of the one and has lost the row of the other
C16_Witness ==
    \E c, d \in Callers :
        /\ calls[c].op = "updateRunComment"
        /\ calls[c].pc = "done"
        /\ calls[c].id \in DOMAIN sqliteStore.rows
        /\ sqliteStore.rows[calls[c].id].human_comment = "ok"
        /\ calls[d].op = "deleteRun"
        /\ calls[d].pc = "done"
        /\ calls[d].row # NoRecord
        /\ calls[d].id \notin DOMAIN sqliteStore.rows

\* the database is open and no call is in flight
AllResolved == db.open /\ \A c \in Callers : calls[c].pc \in {"idle", "done"}

\* C17: whenever the calls made so far have all resolved, the snapshot in
\* the sqlite object store restores to exactly the rows, with their ids and
\* columns, and the sqlite_sequence of the in-memory table; and the
\* database a page opens is the one restored from the snapshot, or an empty
\* one when there is no snapshot.
C17_ReloadYieldsTheRows ==
    /\ [](AllResolved =>
             /\ Restore(sqliteStore).rows = db.rows
             /\ Restore(sqliteStore).seq = db.seq)
    /\ [][(~db.open /\ db'.open) =>
             /\ sqliteStore.present => db' = Restore(sqliteStore)
             /\ ~sqliteStore.present => (db'.rows = EmptyRows /\ db'.seq = 0)]_vars

\* in a page opened from a snapshot, after saveRun, updateRunComment and
\* deleteRun calls, all calls have resolved
C17_Witness ==
    /\ AllResolved
    /\ db.seq = 2
    /\ \E id \in DOMAIN db.rows : db.rows[id].human_comment = "ok"
    /\ Cardinality(DOMAIN db.rows) = 1
    /\ \E c \in Callers : calls[c].pc = "done" /\ calls[c].waitInit
                            /\ calls[c].op = "updateRunComment"

\* the row made of the arguments and the image ids of saveRun call c
RowOf(c) == InsertedRow(calls[c].run, calls[c].inputImageId, calls[c].outputImageId)

\* C18: the id saveRun returns is the id of the row that holds the data of
\* that very call, also when saveRun calls overlap: the id is the one its
\* own INSERT gave to a row that was not there before, the call returns
\* that id, the row under it (while it is in the table) still holds the
\* call's columns, and no other call in flight has the same id.
C18_ReturnsItsOwnId ==
    [][\A c \in Callers :
           /\ (Mutates(c) /\ calls[c].op = "saveRun") =>
                  /\ calls'[c].id \notin DOMAIN db.rows
                  /\ calls'[c].id \in DOMAIN db'.rows
                  /\ db'.rows[calls'[c].id] = RowOf(c)'
           /\ (Resolves(c) /\ calls[c].op = "saveRun") =>
                  /\ calls'[c].id = calls[c].id
                  /\ calls'[c].id # 0
                  /\ calls'[c].id \in DOMAIN db'.rows =>
                         SameButComment(RowOf(c)', db'.rows[calls'[c].id])
                  /\ \A d \in Callers \ {c} :
                         calls'[d].op = "saveRun" => calls'[d].id # calls'[c].id]_vars

\* two saveRun calls with different metadata, both made before the
\* initialisation had finished, have both returned
C18_Witness ==
    /\ \A c \in Callers : /\ calls[c].op = "saveRun"
                           /\ calls[c].pc = "done"
                           /\ calls[c].waitInit
    /\ calls[1].run.meta # calls[2].run.meta
    /\ calls[1].id = 2
    /\ calls[2].id = 1

\* C19: run ids are unique and increase over the whole lifetime of the
\* store, reloads from the snapshot included: the id an INSERT takes is not
\* in the table, is greater than every id saveRun has returned and than
\* every id a snapshot has held (so the id of a deleted run is not taken
\* again), and every id saveRun returns is greater than the ones returned
\* before.
C19_IdsIncrease ==
    [][\A c \in Callers :
           /\ (Mutates(c) /\ calls[c].op = "saveRun") =>
                  /\ calls'[c].id \notin DOMAIN db.rows
                  /\ \A id \in DOMAIN db.rows : id < calls'[c].id
                  /\ calls'[c].id > lastReturnedId
                  /\ calls'[c].id > sqliteStore.seq
           /\ (Resolves(c) /\ calls[c].op = "saveRun") =>
                  /\ calls[c].id > lastReturnedId
                  /\ lastReturnedId' = calls[c].id]_vars

\* saveRun has taken id 2 for the only row of a table whose snapshot shows
\* that run 1, whose id was returned, has been deleted
C19_Witness ==
    \E c \in Callers :
        /\ calls[c].op = "saveRun"
        /\ calls[c].pc = "persist"
        /\ calls[c].id = 2
        /\ DOMAIN db.rows = {2}
        /\ sqliteStore.present
        /\ DOMAIN sqliteStore.rows = {}
        /\ sqliteStore.seq = 1
        /\ lastReturnedId = 1

\* a loadImage of loadImagesForRun call c returns in this step
Loads(c) ==
    /\ calls[c].op = "loadImagesForRun"
    /\ calls'[c].op = "loadImagesForRun"
    /\ calls'[c].pending = calls[c].pending - 1

\* C20: loadImagesForRun does not fail for an absent blob: each of its two
\* reads is of the run's input or output key, none rejects the call, and
\* the call returns, for each image, the content stored under the key when
\* it was read, or the empty string when the key was not in the images
\* store.
C20_MissingImagesLoadEmpty ==
    [][\A c \in Callers :
           Loads(c) =>
               LET key  == Head(imagesQueue).key
                   n    == Len(calls'[c].loaded)
                   want == IF key \in DOMAIN imagesStore THEN imagesStore[key] ELSE ""
               IN /\ key = IF n = 1 THEN calls[c].row.inputImageId
                                    ELSE calls[c].row.outputImageId
                  /\ calls'[c].pc # "rejected"
                  /\ n = 1 => (IF calls'[c].loaded[1] = Null THEN "" ELSE calls'[c].loaded[1])
                                = want
                  /\ n = 2 => /\ calls'[c].pc = "done"
                              /\ calls'[c].images.outputImage = want
                              /\ calls'[c].images.inputImage =
                                     IF calls[c].loaded[1] = Null THEN ""
                                     ELSE calls[c].loaded[1]]_vars

\* loadImagesForRun has returned for a run whose input is missing and whose
\* output is stored
C20_Witness ==
    \E c \in Callers :
        /\ calls[c].op = "loadImagesForRun"
        /\ calls[c].pc = "done"
        /\ calls[c].images = [inputImage |-> "", outputImage |-> "BBB"]
        /\ calls[c].row.inputImageId \notin DOMAIN imagesStore

\* caller c takes a step of a getRuns call
GetRunsStep(c) ==
    /\ calls'[c] # calls[c]
    /\ calls[c].op = "getRuns" \/ calls'[c].op = "getRuns"

\* no call but getRuns has been made
OnlyGetRunsSoFar ==
    /\ stamps = 0
    /\ \A c \in Callers : calls[c].op \in {"idle", "getRuns"}

\* getRuns modifies nothing, the snapshot included: while no call but
\* getRuns has been made, no snapshot is stored
C21_SnapshotUntouched == OnlyGetRunsSoFar => sqliteStore = NoSnapshot

\* C21: no step of a getRuns call requests a read of the images store or
\* changes the table, the images store, the snapshot or the requests
\* queued on the two object stores; the initialisation that the first call
\* of a page starts writes a snapshot with the rows and the sqlite_sequence
\* of the one it has read (an empty table when none was stored).
C21_MetadataOnly ==
    [][/\ \A c \in Callers :
             GetRunsStep(c) =>
                 /\ db' = db
                 /\ imagesStore' = imagesStore
                 /\ imagesQueue' = imagesQueue
                 /\ sqliteStore' = sqliteStore
                 /\ sqliteQueue' = sqliteQueue
       /\ (initPc = "persist" /\ initPc' = "done") =>
             /\ sqliteStore'.present
             /\ sqliteStore'.rows = sqliteStore.rows
             /\ sqliteStore'.seq = sqliteStore.seq]_vars

\* a getRuns that was the first call of the page has returned, and the
\* initialisation it started has written the snapshot
C21_Witness ==
    /\ OnlyGetRunsSoFar
    /\ getRunsResult.returned
    /\ \E c \in Callers : calls[c].op = "getRuns" /\ calls[c].pc = "done"
                            /\ calls[c].waitInit
    /\ sqliteStore.present

\* C24: in every reachable state every entry of the images store under a
\* content-addressed key holds a payload whose hashImage is that key, also
\* after writes of two payloads with one truncated hash.
C24_KeyMatchesContent ==
    \A k \in DOMAIN imagesStore : IsHashKey(k) => hashImage(imagesStore[k]) = k

\* a saveRun whose input has the truncated hash of another stored payload
\* has returned with the key of that payload
C24_Witness ==
    \E c \in Callers :
        /\ calls[c].op = "saveRun"
        /\ calls[c].pc = "done"
        /\ calls[c].run.inputImage = "AAB"
        /\ calls[c].inputImageId \in DOMAIN imagesStore
        /\ imagesStore[calls[c].inputImageId] = "AAA"

\* C27: a deleteRun(id) that found its row and has been rejected has left
\* the row in the table: getRuns returns what it returned before the call.
C27_RejectedDeleteKeepsRow ==
    \A c \in Callers :
        (calls[c].op = "deleteRun" /\ calls[c].pc = "rejected" /\ calls[c].row # NoRecord) =>
            /\ calls[c].id \in DOMAIN db.rows
            /\ getRunById(calls[c].id) = calls[c].row

\* C28: no output image is ever written to the images store: every entry
\* of the store is under the content-addressed key of an input.
C28_OutputsNotStored ==
    \A k \in DOMAIN imagesStore : IsHashKey(k)

\* no call is in flight and no request is queued
Quiescent ==
    /\ \A c \in Callers : calls[c].op = "idle"
    /\ sqliteQueue = <<>>
    /\ imagesQueue = <<>>

SiblingDeletes(c, d) ==
    /\ c # d
    /\ calls[c].op = "deleteRun" /\ calls[d].op = "deleteRun"
    /\ calls[c].id # calls[d].id
    /\ calls[c].row # NoRecord /\ calls[d].row # NoRecord
    /\ calls[c].row.inputImageId = calls[d].row.inputImageId
    /\ calls[c].pc \in {"persist", "deleteImages", "done"}
    /\ calls[d].pc \in {"persist", "deleteImages", "done"}

\* some row of the table has k as its input_image_id
UsedAsInput(k) == \E i \in DOMAIN db.rows : db.rows[i].input_image_id = k

\* C29: of two overlapping deleteRun calls on two runs with one input key,
\* both count another row with that input only while a third row has it;
\* and when both have returned and no row has the key as its input, the
\* input is no longer in the images store.
C29_LastSiblingDeletesTheInput ==
    \A c, d \in Callers :
        SiblingDeletes(c, d) =>
            /\ (calls[c].inputUsageCount > 0 /\ calls[d].inputUsageCount > 0) =>
                   UsedAsInput(calls[c].row.inputImageId)
            /\ (calls[c].pc = "done" /\ calls[d].pc = "done"
                   /\ ~UsedAsInput(calls[c].row.inputImageId)) =>
                   calls[c].row.inputImageId \notin DOMAIN imagesStore

\* two deleteRun calls on the two runs of one input are both between their
\* DELETE and the end of their flush: the first counted the row of the
\* second, the second counted none
C29_Witness ==
    \E c, d \in Callers :
        /\ SiblingDeletes(c, d)
        /\ calls[c].pc = "persist" /\ calls[d].pc = "persist"
        /\ calls[c].inputUsageCount = 1
        /\ calls[d].inputUsageCount = 0
        /\ calls[c].row.inputImageId \in DOMAIN imagesStore

\* C29 as stated: two overlapping deleteRun calls on two runs with one
\* input key both count another row with that input.
C29_BothCountAnotherRow ==
    \A c, d \in Callers :
        SiblingDeletes(c, d) =>
            calls[c].inputUsageCount > 0 /\ calls[d].inputUsageCount > 0

SeedingDecided ==
    /\ ui.startup = "initDatabase"
    /\ ui'.startup \notin {"initDatabase", "unmounted"}

\* the step in which the saveRun of the sample inserts its row
SampleInserted(c) ==
    /\ ui.seedCall = c
    /\ calls[c].op = "saveRun"
    /\ calls[c].id = 0
    /\ calls'[c].op = "saveRun"
    /\ calls'[c].id # 0

\* C22: when the table has a row, seedSampleDataIfEmpty returns false and
\* neither the table, the images store, the snapshot nor a request queue
\* changes; and the sample is inserted into an empty table only.
C22_NeverSeedsOverRows ==
    [][/\ (SeedingDecided /\ DOMAIN db.rows # {}) =>
              /\ ui'.seeded = "false"
              /\ ui'.startup = "ready"
              /\ UNCHANGED <<db, imagesStore, sqliteStore, sqliteQueue, imagesQueue, calls>>
       /\ \A c \in Callers : SampleInserted(c) => DOMAIN db.rows = {}]_vars

\* a page loaded over a store with a run is ready: seedSampleDataIfEmpty
\* returned false without a failure, no generation was started, the run is
\* in the table with its images
C22_Witness ==
    /\ ui.startup = "ready"
    /\ ui.seeded = "false"
    /\ ~ui.seedFailure
    /\ ui.generation = "none"
    /\ \E i \in DOMAIN db.rows :
          /\ db.rows[i].input_image_id \in DOMAIN imagesStore
          /\ db.rows[i].output_image_id \in DOMAIN imagesStore

\* the saveRun of the sample is rejected and seedSampleDataIfEmpty has not
\* resumed yet
SampleSaveRejected ==
    /\ ui.startup = "saveRun"
    /\ calls[ui.seedCall].pc = "rejected"

\* C23: after a failed fetch of a sample image or a rejected saveRun of the
\* sample, seedSampleDataIfEmpty has resolved to false (it never rejects)
\* and dbReady is set; and a rejected saveRun of the sample leads to
\* dbReady.
C23_SeedingFailureIsNotFatal ==
    /\ [](ui.seedFailure => ui.seeded = "false" /\ ui.startup = "ready" /\ ui.dbReady)
    /\ (SampleSaveRejected ~> ui.dbReady)

\* the saveRun of the sample was rejected after its images were written,
\* and the page is ready
C23_Witness ==
    /\ ui.seedFailure
    /\ ui.seeded = "false"
    /\ ui.dbReady
    /\ imagesStore # <<>>

\* C25: generate() has called saveRun once when generateCover was
\* fulfilled and not at all when it was rejected.
C25_OneSaveRunPerGeneration ==
    /\ ui.generation = "succeeded" => ui.saveRunCalls = 1
    /\ ui.generation = "failed" => ui.saveRunCalls = 0

\* C26: when the saveRun of generate() is rejected, lastRun, lastRunId and
\* lastRunComment are what they were when the generation was started.
C26_RejectedSaveKeepsLastRun ==
    [][(ui.saved # "rejected" /\ ui'.saved = "rejected") =>
           LastRunState(ui') = ui'.before]_vars

\* C31: every row of the durable snapshot has its input and its output in
\* the durable images store, at every moment at which the page may stop.
C31_SnapshotRowsHaveBlobs ==
    \A i \in DOMAIN sqliteStore.rows :
        /\ sqliteStore.rows[i].input_image_id \in DOMAIN imagesStore
        /\ sqliteStore.rows[i].output_image_id \in DOMAIN imagesStore

\* queue q2 is queue q with requests appended
AppendsOnly(q, q2) == Len(q2) >= Len(q) /\ SubSeq(q2, 1, Len(q)) = q

\* the step serves the first request of queue q, which becomes q2
Serves(q, q2) ==
    /\ q # <<>>
    /\ Len(q2) >= Len(q) - 1
    /\ SubSeq(q2, 1, Len(q) - 1) = Tail(q)
    /\ ~AppendsOnly(q, q2)

SampleRows == {i \in DOMAIN db.rows : db.rows[i].meta = SampleRun.meta}

\* C33: whatever the calls of seedSampleDataIfEmpty on a store that was
\* empty, the table holds at most one sample run.
C33_AtMostOneSample == Cardinality(SampleRows) <= 1

\* C34: when no generation is running and lastRunId is set, the saveRun of
\* the generation whose metrics are the last run was fulfilled (and gave
\* lastRunId).
C34_LastRunIdIsOfLastRun ==
    (ui.lastRunId # 0 /\ ~ui.isGenerating /\ ui.generation = "succeeded") =>
        ui.saved = "done"

\* the input image a run with these settings was saved with
InputImageOf(meta) ==
    IF meta = SampleRun.meta THEN SampleRun.inputImage ELSE GeneratedRun.inputImage

\* C35: what Edit loaded into the editor from the history is the input
\* image and the settings of one and the same run.
C35_EditLoadsOneRun ==
    ui.edited.set => ui.edited.inputImage = InputImageOf(ui.edited.meta)

\* the step calls deleteRun(id)
DeleteRunCalled(id) ==
    \E c \in Callers :
        /\ calls[c].op = "idle"
        /\ calls'[c].op = "deleteRun"
        /\ calls'[c].id = id

\* the step is a click on the delete button of run id
DeleteClicked(id) == ui'.clicked # ui.clicked /\ ui.selectedRun.id = id

\* C36: deleteRun(id) is called only by a click on the delete button of run
\* id that follows an earlier click on that button within ConfirmSeconds,
\* with no deleteRun call in between; a click on the button of a run while
\* the confirmation of another run is armed calls no deleteRun and arms
\* the confirmation of the clicked run.
C36_NeverDeletedByOneClick ==
    [][\A id \in 1..MaxRuns :
         /\ DeleteRunCalled(id) =>
               /\ DeleteClicked(id)
               /\ ui.sinceClick[id] <= ConfirmSeconds
               /\ ~ui.deletionSince[id]
         /\ (DeleteClicked(id) /\ ui.deleteConfirm \notin {0, id}) =>
               /\ \A j \in 1..MaxRuns : ~DeleteRunCalled(j)
               /\ ui'.deleteConfirm = id]_vars

\* deleteRun of run 2 was called by the second of two clicks on its delete
\* button while the sample run is still there, and a second has passed
C36_Witness ==
    /\ \E c \in ui.deleteCalls : calls[c].op = "deleteRun" /\ calls[c].id = 2
    /\ ui.sinceClick[2] = 1
    /\ ui.deleteConfirm = 2
    /\ 1 \in DOMAIN db.rows

\* value holds the text of a data: URL
HoldsDataUrl(value) ==
    \/ value.kind = "string" /\ value.dataUrl
    \/ value.kind \in {"object", "json"} /\ value.image.dataUrl

\* no property of the details of an entry of the JSON text holds a data: URL
NoDataUrlIn(json) ==
    \A i \in DOMAIN json :
        "details" \in DOMAIN json[i] =>
            \A key \in DOMAIN json[i].details : ~HoldsDataUrl(json[i].details[key])

\* C37: no data: URL supplied in the details of a logEvent call, at the top
\* level or inside an object value, is in the entries of the log, in
\* localStorage or in the text on the clipboard.
C37_NoDataUrlStored ==
    /\ NoDataUrlIn(JsonStringify(debugLog.entries))
    /\ NoDataUrlIn(debugLog.localStorage.json)
    /\ NoDataUrlIn(debugLog.clipboard.json)

\* the last MAX_LOG_ENTRIES of the entries appended so far, in the order
\* they were appended in
NewestAppended ==
    LET n == Len(debugLog.appended)
    IN IF n <= MAX_LOG_ENTRIES THEN debugLog.appended
       ELSE [i \in 1..MAX_LOG_ENTRIES |-> debugLog.appended[n - MAX_LOG_ENTRIES + i]]

FetchAttempts ==
    /\ Len(fetchCall.attempts) <= fetchCall.args.retries + 1
    /\ \A i \in DOMAIN fetchCall.attempts :
         fetchCall.attempts[i] = "json" =>
             i = Len(fetchCall.attempts) /\ fetchCall.pc = "returned"
    /\ \A i \in DOMAIN fetchCall.waits :
         fetchCall.waits[i] = fetchCall.args.delayMs * 2 ^ (i - 1)
    /\ Len(fetchCall.waits) =
           IF fetchCall.pc \in {"idle", "fetch"} THEN Len(fetchCall.attempts)
           ELSE Len(fetchCall.attempts) - 1

\* what a call of fetchJsonWithRetry ends with: the JSON of its last
\* attempt, or after retries + 1 attempts the error of the last one
FetchResult ==
    /\ fetchCall.pc = "returned" =>
         /\ fetchCall.attempts[Len(fetchCall.attempts)] = "json"
         /\ fetchCall.result = [kind |-> "json", attempt |-> Len(fetchCall.attempts)]
    /\ fetchCall.pc = "rejected" =>
         /\ Len(fetchCall.attempts) = fetchCall.args.retries + 1
         /\ fetchCall.result = [kind |-> "error", attempt |-> Len(fetchCall.attempts)]

\* C39: a call of fetchJsonWithRetry makes at most retries + 1 attempts,
\* returns the JSON of its first successful attempt without a further one,
\* waits delayMs, doubled after every failed attempt, before the next one,
\* rejects with the error of the last attempt after retries + 1 failed
\* ones, and it ends.
C39_FetchJsonWithRetryEnds ==
    /\ [](FetchAttempts /\ FetchResult)
    /\ (fetchCall.pc \in {"fetch", "wait"}) ~> (fetchCall.pc \in {"returned", "rejected"})

\* the call with the default arguments is rejected with the error of its
\* fourth attempt, after waits of 800, 1600 and 3200 ms
C39_Witness ==
    /\ fetchCall.pc = "rejected"
    /\ fetchCall.args = [retries |-> DefaultRetries, delayMs |-> DefaultDelayMs]
    /\ Len(fetchCall.attempts) = DefaultRetries + 1
    /\ fetchCall.waits = <<800, 1600, 3200>>
    /\ fetchCall.result = [kind |-> "error", attempt |-> 4]

====
